---- MODULE Spec2Model ----
(***************************************************************************)
(* Server-side lazy grid browsing (reflex-mui-datagrid):                   *)
(*   - merge_filter_model, the filter merge algorithm;                     *)
(*   - the query translation of polars_utils (filter, sort, slice);        *)
(*   - LazyFrameGridMixin, the session controller and its event handlers,  *)
(*     each a generator that yields once after setting lf_grid_loading.    *)
(***************************************************************************)
EXTENDS Integers, Sequences, FiniteSets, TLC

VARIABLES
    lf_grid_rows,                 \* list of row dicts (with __row_id__)
    lf_grid_columns,              \* column definitions sent to the frontend
    lf_grid_row_count,
    lf_grid_loading,
    lf_grid_loaded,
    lf_grid_stats,
    lf_grid_selected_info,
    lf_grid_filter_debug,
    lf_grid_filter_preset_json,
    lf_grid_filter_model,         \* UI-visible (controlled) filter model
    lf_grid_active_filter_fields,
    lf_grid_pagination_model,     \* [page, pageSize]
    _lf_grid_filter,              \* accumulated server-side filter
    _lf_grid_sort,                \* accumulated sort model
    _lf_grid_cache_id,
    _cache_registry,              \* module-level registry: cache id -> _LazyFrameCache
    inflight,                     \* generator frames suspended at their yield
    last_queries,                 \* the queries the last handler step executed
    chunk_log,                    \* offsets appended since the last replacing refresh
    last_step,                    \* the handler step taken last: [h, at]
    merge_call,                   \* one call of the pure function merge_filter_model
    peer,                         \* a second session of the same state class
    query_call,                   \* one call of apply_filter_model or apply_sort_model
    preset_file                   \* the preset file the browser saved last

vars == << lf_grid_rows, lf_grid_columns, lf_grid_row_count, lf_grid_loading,
           lf_grid_loaded, lf_grid_stats, lf_grid_selected_info,
           lf_grid_filter_debug, lf_grid_filter_preset_json,
           lf_grid_filter_model, lf_grid_active_filter_fields,
           lf_grid_pagination_model, _lf_grid_filter, _lf_grid_sort,
           _lf_grid_cache_id, _cache_registry, inflight, last_queries,
           chunk_log, last_step, merge_call, peer, query_call, preset_file >>

session_vars == << lf_grid_rows, lf_grid_columns, lf_grid_row_count, lf_grid_loading,
           lf_grid_loaded, lf_grid_stats, lf_grid_selected_info,
           lf_grid_filter_debug, lf_grid_filter_preset_json,
           lf_grid_filter_model, lf_grid_active_filter_fields,
           lf_grid_pagination_model, _lf_grid_filter, _lf_grid_sort,
           _lf_grid_cache_id, _cache_registry, inflight, last_queries,
           chunk_log, last_step, peer, preset_file >>

----------------------------------------------------------------------------
(* Python / JSON values.  Every value is a record of one shape, so that any *)
(* two values can be compared: k is the Python type, s the characters of a  *)
(* str, n the number of an int (or 0/1 of a bool).                          *)

PyNone == [k |-> "None", s |-> << >>, n |-> 0]
PyStr(chars) == [k |-> "str", s |-> chars, n |-> 0]
PyInt(i) == [k |-> "int", s |-> << >>, n |-> i]
PyBool(b) == [k |-> "bool", s |-> << >>, n |-> IF b THEN 1 ELSE 0]

\* Python truthiness of a value (``if not field``, ``if operator and ...``).
Truthy(v) ==
    CASE v.k = "None" -> FALSE
      [] v.k = "str"  -> v.s # << >>
      [] v.k = "int"  -> v.n # 0
      [] v.k = "bool" -> v.n # 0
      [] OTHER        -> TRUE

\* String literals of the source, as character sequences.
s_and == << "a", "n", "d" >>
s_or == << "o", "r" >>
s_isEmpty == << "i", "s", "E", "m", "p", "t", "y" >>
s_isNotEmpty == << "i", "s", "N", "o", "t", "E", "m", "p", "t", "y" >>
s_is == << "i", "s" >>
s_not == << "n", "o", "t" >>
s_equals == << "e", "q", "u", "a", "l", "s" >>
s_contains == << "c", "o", "n", "t", "a", "i", "n", "s" >>
s_startsWith == << "s", "t", "a", "r", "t", "s", "W", "i", "t", "h" >>
s_endsWith == << "e", "n", "d", "s", "W", "i", "t", "h" >>
s_gt == << ">" >>
s_ge == << ">", "=" >>
s_lt == << "<" >>
s_le == << "<", "=" >>
s_eq == << "=" >>
s_ne == << "!", "=" >>
s_asc == << "a", "s", "c" >>
s_desc == << "d", "e", "s", "c" >>

----------------------------------------------------------------------------
(* Filter items and filter models are Python dicts.  A dict is a record of  *)
(* the keys the program reads plus the set of keys that are present; an     *)
(* absent key holds PyNone (what dict.get returns for it).                  *)

ItemKeys == {"field", "operator", "value", "id"}

MkItem(keys, field, operator, value, id) ==
    [keys |-> keys,
     field |-> IF "field" \in keys THEN field ELSE PyNone,
     operator |-> IF "operator" \in keys THEN operator ELSE PyNone,
     value |-> IF "value" \in keys THEN value ELSE PyNone,
     id |-> IF "id" \in keys THEN id ELSE PyNone]

\* item.get(key) and item.get(key, default)
ItemGet(item, key) ==
    CASE key = "field"    -> item.field
      [] key = "operator" -> item.operator
      [] key = "value"    -> item.value
      [] key = "id"       -> item.id

ItemGetDefault(item, key, default) ==
    IF key \in item.keys THEN ItemGet(item, key) ELSE default

\* {} : the empty dict
EmptyDict == [keys |-> {}, items |-> << >>, logicOperator |-> PyNone]

MkFilterModel(keys, items, logic) ==
    [keys |-> keys,
     items |-> IF "items" \in keys THEN items ELSE << >>,
     logicOperator |-> IF "logicOperator" \in keys THEN logic ELSE PyNone]

\* filter_model.get("items", [])
FilterItems(fm) == IF "items" \in fm.keys THEN fm.items ELSE << >>

\* filter_model.get("logicOperator", "and")
FilterLogic(fm) == IF "logicOperator" \in fm.keys THEN fm.logicOperator ELSE PyStr(s_and)

----------------------------------------------------------------------------
(* merge_filter_model (lazyframe_grid.py).  by_field is a Python dict, which *)
(* keeps insertion order: a sequence of [key, val] with distinct keys.       *)

OrderedDictHas(d, key) == \E i \in 1..Len(d) : d[i].key = key

OrderedDictGet(d, key) == d[CHOOSE i \in 1..Len(d) : d[i].key = key].val

\* d[key] = val : replaces in place when the key exists, appends otherwise
OrderedDictSet(d, key, val) ==
    IF OrderedDictHas(d, key)
    THEN [i \in 1..Len(d) |-> IF d[i].key = key THEN [key |-> key, val |-> val] ELSE d[i]]
    ELSE Append(d, [key |-> key, val |-> val])

OrderedDictValues(d) == [i \in 1..Len(d) |-> d[i].val]

\* for item in existing_items: field = item.get("field"); if field: by_field[field] = item
RECURSIVE index_existing_items(_, _)
index_existing_items(by_field, items) ==
    IF items = << >> THEN by_field
    ELSE LET item == Head(items)
             field == ItemGet(item, "field")
         IN  index_existing_items(
                 IF Truthy(field) THEN OrderedDictSet(by_field, field, item) ELSE by_field,
                 Tail(items))

valueless_ops == {PyStr(s_isEmpty), PyStr(s_isNotEmpty)}

\* a variant of item_has_value that forgets the valueless operators
item_value_not_none(item) == ItemGet(item, "value") # PyNone

\* has_value = item.get("value") is not None; True for a valueless operator
item_has_value(item) ==
    \/ ItemGet(item, "value") # PyNone
    \/ ItemGetDefault(item, "operator", PyStr(<< >>)) \in valueless_ops

\* {**d, "operator": operator}
item_with_operator(d, operator) ==
    [d EXCEPT !.keys = @ \cup {"operator"}, !.operator = operator]

\* a variant of merge_incoming_item that upserts every incoming item
merge_incoming_item_upserts_any(by_field, item) ==
    IF ~Truthy(ItemGet(item, "field")) THEN by_field
    ELSE OrderedDictSet(by_field, ItemGet(item, "field"), item)

\* a variant of merge_incoming_item that never patches the operator
merge_incoming_item_keeps_operator(by_field, item) ==
    IF ~Truthy(ItemGet(item, "field")) THEN by_field
    ELSE IF item_has_value(item) THEN OrderedDictSet(by_field, ItemGet(item, "field"), item)
    ELSE by_field

\* a variant of merge_incoming_item that adds an item without a value when its
\* field has no filter yet
merge_incoming_item_adds_new(by_field, item) ==
    IF ~Truthy(ItemGet(item, "field")) THEN by_field
    ELSE IF item_has_value(item) \/ ~OrderedDictHas(by_field, ItemGet(item, "field"))
    THEN OrderedDictSet(by_field, ItemGet(item, "field"), item)
    ELSE IF Truthy(ItemGetDefault(item, "operator", PyStr(<< >>)))
            /\ ItemGetDefault(item, "operator", PyStr(<< >>))
               # ItemGetDefault(OrderedDictGet(by_field, ItemGet(item, "field")),
                                "operator", PyStr(<< >>))
    THEN OrderedDictSet(by_field, ItemGet(item, "field"),
                        item_with_operator(OrderedDictGet(by_field, ItemGet(item, "field")),
                                           ItemGetDefault(item, "operator", PyStr(<< >>))))
    ELSE by_field

\* one turn of ``for item in incoming_items`` (lines 1303-1325)
merge_incoming_item(by_field, item) ==
    LET field == ItemGet(item, "field")
        operator == ItemGetDefault(item, "operator", PyStr(<< >>))
    IN  IF ~Truthy(field) THEN by_field
        ELSE IF item_has_value(item) THEN OrderedDictSet(by_field, field, item)
        ELSE IF OrderedDictHas(by_field, field)
        THEN LET cur == OrderedDictGet(by_field, field)
                 existing_op == ItemGetDefault(cur, "operator", PyStr(<< >>))
             IN  IF Truthy(operator) /\ operator # existing_op
                 THEN OrderedDictSet(by_field, field, item_with_operator(cur, operator))
                 ELSE by_field
        ELSE by_field

RECURSIVE merge_incoming_items(_, _)
merge_incoming_items(by_field, items) ==
    IF items = << >> THEN by_field
    ELSE merge_incoming_items(merge_incoming_item(by_field, Head(items)), Tail(items))

\* a variant of merge_filter_model without the early return on no incoming items
merge_filter_model_keeps_on_empty(existing, incoming) ==
    IF OrderedDictValues(merge_incoming_items(
           index_existing_items(<< >>, IF existing # EmptyDict THEN FilterItems(existing)
                                       ELSE << >>),
           FilterItems(incoming))) = << >>
    THEN EmptyDict
    ELSE MkFilterModel({"items", "logicOperator"},
                       OrderedDictValues(merge_incoming_items(
                           index_existing_items(<< >>, FilterItems(existing)),
                           FilterItems(incoming))),
                       FilterLogic(incoming))

\* merge_filter_model(existing, incoming)
merge_filter_model(existing, incoming) ==
    LET incoming_items == FilterItems(incoming)
        logic == FilterLogic(incoming)
        existing_items == IF existing # EmptyDict THEN FilterItems(existing) ELSE << >>
        by_field == merge_incoming_items(
                        index_existing_items(<< >>, existing_items), incoming_items)
        merged_items == OrderedDictValues(by_field)
    IN  IF incoming_items = << >> THEN EmptyDict
        ELSE IF merged_items = << >> THEN EmptyDict
        ELSE MkFilterModel({"items", "logicOperator"}, merged_items, logic)

----------------------------------------------------------------------------
(* The lazy frame behind the grid.  A LazyFrame handle is a name; its schema *)
(* is a list of [name, dtype] and its rows are lists of cells in schema      *)
(* order (PyNone is a null cell).                                            *)

NumRows == 5            \* rows of the scanned table
ChunkSize == 2          \* chunk_size passed to set_lazyframe
MaxUnique == 2          \* value_options_max_unique passed to set_lazyframe

c_dept == << "d", "e", "p", "t" >>
c_age == << "a", "g", "e" >>
c_name == << "n", "a", "m", "e" >>
c_nope == << "n", "o", "p", "e" >>
c_active == << "a", "c", "t", "i", "v", "e" >>
v_eng == << "e", "n", "g" >>
v_ops == << "o", "p", "s" >>

DeptCycle == << PyStr(v_eng), PyStr(v_ops), PyStr(v_eng), PyNone, PyStr(v_ops), PyStr(v_eng) >>
AgeCycle == << PyInt(35), PyInt(40), PyInt(25), PyInt(20), PyInt(35), PyInt(30) >>
NameCycle == << PyStr(<< "a" >>), PyStr(<< "b" >>), PyStr(<< "c" >>),
                PyStr(<< "d" >>), PyStr(<< "e" >>), PyStr(<< "g" >>) >>

ActiveCycle == << PyBool(TRUE), PyBool(FALSE), PyNone, PyBool(TRUE), PyBool(FALSE), PyBool(TRUE) >>

Cyc(table, i) == table[((i - 1) % Len(table)) + 1]

LF1 == "LF1"

\* a second handle, over another table
LF2 == "LF2"

\* a handle over the table of LF1 with dept as a Categorical column and one
\* more column, the Boolean active
LF3 == "LF3"

LazyFrames == {LF1}

\* lf.collect_schema()
collect_schema(lf) ==
    IF lf = LF3
    THEN << [name |-> c_dept, dtype |-> "Categorical"],
            [name |-> c_age, dtype |-> "Int64"],
            [name |-> c_name, dtype |-> "String"],
            [name |-> c_active, dtype |-> "Boolean"] >>
    ELSE << [name |-> c_dept, dtype |-> "String"],
            [name |-> c_age, dtype |-> "Int64"],
            [name |-> c_name, dtype |-> "String"] >>

\* the rows a full collect() of the handle would return
ScanRows(lf) ==
    IF lf = LF2
    THEN [i \in 1..(NumRows - 2) |->
            << Cyc(DeptCycle, i + 3), Cyc(AgeCycle, i + 3), Cyc(NameCycle, i + 3) >>]
    ELSE IF lf = LF3
    THEN [i \in 1..NumRows |->
            << Cyc(DeptCycle, i), Cyc(AgeCycle, i), Cyc(NameCycle, i), Cyc(ActiveCycle, i) >>]
    ELSE [i \in 1..NumRows |-> << Cyc(DeptCycle, i), Cyc(AgeCycle, i), Cyc(NameCycle, i) >>]

SchemaHas(schema, chars) == \E i \in 1..Len(schema) : schema[i].name = chars

SchemaIndex(schema, chars) == CHOOSE i \in 1..Len(schema) : schema[i].name = chars

\* ``field in schema`` for a Python value
field_in_schema(field, schema) == field.k = "str" /\ SchemaHas(schema, field.s)

polars_dtype_to_grid_type(dtype) ==
    CASE dtype = "Boolean" -> "boolean"
      [] dtype \in {"Int64", "Float64"} -> "number"
      [] dtype = "Date" -> "date"
      [] dtype = "Datetime" -> "dateTime"
      [] OTHER -> "string"

_is_categorical_dtype(dtype) == dtype \in {"Categorical", "Enum"}

----------------------------------------------------------------------------
(* Text: decimal rendering, parsing and ordering of character strings.      *)

Digits == << "0", "1", "2", "3", "4", "5", "6", "7", "8", "9" >>

RECURSIVE NatToChars(_)
NatToChars(n) ==
    IF n < 10 THEN << Digits[n + 1] >>
    ELSE NatToChars(n \div 10) \o << Digits[(n % 10) + 1] >>

IntToChars(i) == IF i < 0 THEN << "-" >> \o NatToChars(0 - i) ELSE NatToChars(i)

IsDigit(ch) == \E d \in 1..10 : Digits[d] = ch

DigitValue(ch) == (CHOOSE d \in 1..10 : Digits[d] = ch) - 1

RECURSIVE CharsToNat(_, _)
CharsToNat(chars, acc) ==
    IF chars = << >> THEN acc
    ELSE CharsToNat(Tail(chars), acc * 10 + DigitValue(Head(chars)))

AllDigits(chars) == chars # << >> /\ \A i \in 1..Len(chars) : IsDigit(chars[i])

\* value.strip()
RECURSIVE LStrip(_)
LStrip(chars) ==
    IF chars # << >> /\ Head(chars) = " " THEN LStrip(Tail(chars)) ELSE chars

RECURSIVE RStrip(_)
RStrip(chars) ==
    IF chars # << >> /\ chars[Len(chars)] = " "
    THEN RStrip(SubSeq(chars, 1, Len(chars) - 1)) ELSE chars

Strip(chars) == RStrip(LStrip(chars))

\* str(value) of a Python value
py_str(v) ==
    CASE v.k = "str"  -> v.s
      [] v.k = "int"  -> IntToChars(v.n)
      [] v.k = "bool" -> IF v.n = 1 THEN << "T", "r", "u", "e" >>
                                    ELSE << "F", "a", "l", "s", "e" >>
      [] OTHER        -> << "N", "o", "n", "e" >>

\* _coerce_numeric: a number, or PyNone.  int() of the stripped text; the
\* texts drawn here hold no float literal.
_coerce_numeric(value) ==
    CASE value.k = "int" -> value
      [] value.k = "bool" -> PyInt(value.n)
      [] value.k = "str" ->
            LET t == Strip(value.s)
            IN  IF t = << >> THEN PyNone
                ELSE IF AllDigits(t) THEN PyInt(CharsToNat(t, 0))
                ELSE IF Head(t) = "-" /\ AllDigits(Tail(t)) THEN PyInt(0 - CharsToNat(Tail(t), 0))
                ELSE IF Head(t) = "+" /\ AllDigits(Tail(t)) THEN PyInt(CharsToNat(Tail(t), 0))
                ELSE PyNone
      [] OTHER -> PyNone

Alphabet == << " ", "+", "-", "0", "1", "2", "3", "4", "5", "6", "7", "8", "9",
               "<", "=", ">", "E", "F", "N", "T", "W",
               "a", "b", "c", "d", "e", "f", "g", "h", "i", "j", "k", "l", "m",
               "n", "o", "p", "q", "r", "s", "t", "u", "v", "w", "x", "y", "z" >>

CharRank(ch) == CHOOSE i \in 1..Len(Alphabet) : Alphabet[i] = ch

RECURSIVE CharsLess(_, _)
CharsLess(a, b) ==
    IF b = << >> THEN FALSE
    ELSE IF a = << >> THEN TRUE
    ELSE IF Head(a) = Head(b) THEN CharsLess(Tail(a), Tail(b))
    ELSE CharRank(Head(a)) < CharRank(Head(b))

StartsWith(a, prefix) == Len(prefix) <= Len(a) /\ SubSeq(a, 1, Len(prefix)) = prefix

EndsWith(a, suffix) ==
    Len(suffix) <= Len(a) /\ SubSeq(a, Len(a) - Len(suffix) + 1, Len(a)) = suffix

Contains(a, part) ==
    \E i \in 1..(Len(a) - Len(part) + 1) : SubSeq(a, i, i + Len(part) - 1) = part

UpperLetters == << "A", "B", "C", "D", "E", "F", "G", "H", "I", "J", "K", "L", "M",
                   "N", "O", "P", "Q", "R", "S", "T", "U", "V", "W", "X", "Y", "Z" >>
LowerLetters == << "a", "b", "c", "d", "e", "f", "g", "h", "i", "j", "k", "l", "m",
                   "n", "o", "p", "q", "r", "s", "t", "u", "v", "w", "x", "y", "z" >>

LowerChar(ch) ==
    IF \E i \in 1..26 : UpperLetters[i] = ch
    THEN LowerLetters[CHOOSE i \in 1..26 : UpperLetters[i] = ch]
    ELSE ch

\* str.lower()
Lower(chars) == [i \in 1..Len(chars) |-> LowerChar(chars[i])]

----------------------------------------------------------------------------
(* polars expressions.  A predicate over one column; evaluating it on a row *)
(* gives "T", "F" or "N" (null), combined with Kleene's & and |, and        *)
(* filter() keeps the rows that evaluate to "T".                            *)

NoExpr == [op |-> "None", col |-> 0, dtype |-> "", sval |-> << >>, nval |-> 0]

Expr(op, col, dtype, sval, nval) ==
    [op |-> op, col |-> col, dtype |-> dtype, sval |-> sval, nval |-> nval]

\* _col_to_str_expr : col.cast(pl.String) of one cell (null stays null)
_col_to_str_expr(cell, dtype) ==
    CASE cell.k = "None" -> PyNone
      [] cell.k = "str"  -> cell
      [] cell.k = "int"  -> PyStr(IntToChars(cell.n))
      [] cell.k = "bool" -> PyStr(IF cell.n = 1 THEN << "t", "r", "u", "e" >>
                                                ELSE << "f", "a", "l", "s", "e" >>)

Bool3(b) == IF b THEN "T" ELSE "F"

And3(a, b) ==
    IF a = "F" \/ b = "F" THEN "F" ELSE IF a = "T" /\ b = "T" THEN "T" ELSE "N"

Or3(a, b) ==
    IF a = "T" \/ b = "T" THEN "T" ELSE IF a = "F" /\ b = "F" THEN "F" ELSE "N"

EvalExpr(e, row) ==
    LET cell == row[e.col]
        str_col == _col_to_str_expr(cell, e.dtype)
        null == cell.k = "None"
    IN  CASE e.op = "isEmpty" ->
                Or3(Bool3(null), IF null THEN "N" ELSE Bool3(str_col.s = << >>))
          [] e.op = "isNotEmpty" ->
                And3(Bool3(~null), IF null THEN "N" ELSE Bool3(str_col.s # << >>))
          [] e.op = "str_eq" -> IF null THEN "N" ELSE Bool3(str_col.s = e.sval)
          [] e.op = "str_ne" -> IF null THEN "N" ELSE Bool3(str_col.s # e.sval)
          [] e.op = "contains" -> IF null THEN "N" ELSE Bool3(Contains(str_col.s, e.sval))
          [] e.op = "starts_with" -> IF null THEN "N" ELSE Bool3(StartsWith(str_col.s, e.sval))
          [] e.op = "ends_with" -> IF null THEN "N" ELSE Bool3(EndsWith(str_col.s, e.sval))
          [] e.op = "num_eq" -> IF null THEN "N" ELSE Bool3(cell.n = e.nval)
          [] e.op = "num_ne" -> IF null THEN "N" ELSE Bool3(cell.n # e.nval)
          [] e.op = "num_gt" -> IF null THEN "N" ELSE Bool3(cell.n > e.nval)
          [] e.op = "num_ge" -> IF null THEN "N" ELSE Bool3(cell.n >= e.nval)
          [] e.op = "num_lt" -> IF null THEN "N" ELSE Bool3(cell.n < e.nval)
          [] e.op = "num_le" -> IF null THEN "N" ELSE Bool3(cell.n <= e.nval)

\* the string branch of _build_filter_expr (lines 344-354)
string_filter_expr(operator, str_value, col, dtype) ==
    IF operator = PyStr(s_contains) THEN Expr("contains", col, dtype, str_value, 0)
    ELSE IF operator = PyStr(s_equals) THEN Expr("str_eq", col, dtype, str_value, 0)
    ELSE IF operator = PyStr(s_startsWith) THEN Expr("starts_with", col, dtype, str_value, 0)
    ELSE IF operator = PyStr(s_endsWith) THEN Expr("ends_with", col, dtype, str_value, 0)
    ELSE NoExpr

\* a variant that compares with 0 when the value is no number
number_filter_expr_zero_default(operator, num_value, col, dtype) ==
    LET n == IF num_value = PyNone THEN 0 ELSE num_value.n
    IN  IF operator \in {PyStr(s_eq), PyStr(s_equals)} THEN Expr("num_eq", col, dtype, << >>, n)
        ELSE IF operator \in {PyStr(s_ne), PyStr(s_not)} THEN Expr("num_ne", col, dtype, << >>, n)
        ELSE IF operator = PyStr(s_gt) THEN Expr("num_gt", col, dtype, << >>, n)
        ELSE IF operator = PyStr(s_ge) THEN Expr("num_ge", col, dtype, << >>, n)
        ELSE IF operator = PyStr(s_lt) THEN Expr("num_lt", col, dtype, << >>, n)
        ELSE IF operator = PyStr(s_le) THEN Expr("num_le", col, dtype, << >>, n)
        ELSE NoExpr

\* the number branch of _build_filter_expr (lines 357-373); num_value is what
\* _coerce_numeric returned
number_filter_expr(operator, num_value, col, dtype) ==
    IF num_value = PyNone THEN NoExpr
    ELSE IF operator \in {PyStr(s_eq), PyStr(s_equals)} THEN Expr("num_eq", col, dtype, << >>, num_value.n)
    ELSE IF operator \in {PyStr(s_ne), PyStr(s_not)} THEN Expr("num_ne", col, dtype, << >>, num_value.n)
    ELSE IF operator = PyStr(s_gt) THEN Expr("num_gt", col, dtype, << >>, num_value.n)
    ELSE IF operator = PyStr(s_ge) THEN Expr("num_ge", col, dtype, << >>, num_value.n)
    ELSE IF operator = PyStr(s_lt) THEN Expr("num_lt", col, dtype, << >>, num_value.n)
    ELSE IF operator = PyStr(s_le) THEN Expr("num_le", col, dtype, << >>, num_value.n)
    ELSE NoExpr

\* _build_filter_expr from ``col = pl.col(field)`` on (lines 318-375), for a
\* field of the schema.  No value drawn here is a list, so isAnyOf always
\* meets ``not isinstance(value, list)``.
column_filter_expr(operator, value, col, dtype) ==
    IF operator = PyStr(s_isEmpty) THEN Expr("isEmpty", col, dtype, << >>, 0)
    ELSE IF operator = PyStr(s_isNotEmpty) THEN Expr("isNotEmpty", col, dtype, << >>, 0)
    ELSE IF value = PyNone THEN NoExpr
    ELSE IF operator = PyStr(s_is) THEN Expr("str_eq", col, dtype, py_str(value), 0)
    ELSE IF operator = PyStr(s_not) THEN Expr("str_ne", col, dtype, py_str(value), 0)
    ELSE IF operator = PyStr(<< "i", "s", "A", "n", "y", "O", "f" >>) THEN NoExpr
    ELSE IF polars_dtype_to_grid_type(dtype) = "string" \/ _is_categorical_dtype(dtype)
    THEN string_filter_expr(operator, py_str(value), col, dtype)
    ELSE IF polars_dtype_to_grid_type(dtype) = "number"
    THEN number_filter_expr(operator, _coerce_numeric(value), col, dtype)
    ELSE NoExpr

\* _build_filter_expr : the expression of one filter item, or NoExpr (None)
_build_filter_expr(item, schema) ==
    IF ItemGet(item, "field") = PyNone \/ ItemGet(item, "operator") = PyNone THEN NoExpr
    ELSE IF ~field_in_schema(ItemGet(item, "field"), schema) THEN NoExpr
    ELSE column_filter_expr(ItemGet(item, "operator"), ItemGet(item, "value"),
                            SchemaIndex(schema, ItemGet(item, "field").s),
                            schema[SchemaIndex(schema, ItemGet(item, "field").s)].dtype)

\* exprs = [expr for item in items if (expr := _build_filter_expr(item, schema)) is not None]
RECURSIVE filter_exprs(_, _)
filter_exprs(items, schema) ==
    IF items = << >> THEN << >>
    ELSE SelectSeq(<< _build_filter_expr(Head(items), schema) >>, LAMBDA e : e # NoExpr)
         \o filter_exprs(Tail(items), schema)

\* combined = exprs[0]; for e in exprs[1:]: combined = combined | e   (or & e)
RECURSIVE EvalCombined(_, _, _, _)
EvalCombined(acc, exprs, is_or, row) ==
    IF exprs = << >> THEN acc
    ELSE EvalCombined(IF is_or THEN Or3(acc, EvalExpr(Head(exprs), row))
                               ELSE And3(acc, EvalExpr(Head(exprs), row)),
                      Tail(exprs), is_or, row)

\* the subsequence of rows a predicate keeps, in order
RECURSIVE SelectRows(_, _, _)
SelectRows(rows, exprs, is_or) ==
    IF rows = << >> THEN << >>
    ELSE (IF EvalCombined(EvalExpr(exprs[1], Head(rows)), Tail(exprs), is_or, Head(rows)) = "T"
          THEN << Head(rows) >> ELSE << >>)
         \o SelectRows(Tail(rows), exprs, is_or)

\* a variant that combines the expressions with & whatever the logic
filter_by_exprs_always_and(lf_rows, exprs, logic) ==
    IF exprs = << >> THEN lf_rows
    ELSE SelectRows(lf_rows, exprs, FALSE)

\* apply_filter_model(lf, filter_model, schema): the rows of the filtered frame
filter_by_exprs(lf_rows, exprs, logic) ==
    IF exprs = << >> THEN lf_rows
    ELSE SelectRows(lf_rows, exprs, logic = s_or)

apply_filter_model(lf_rows, filter_model, schema) ==
    IF FilterItems(filter_model) = << >> THEN lf_rows
    ELSE filter_by_exprs(lf_rows, filter_exprs(FilterItems(filter_model), schema),
                         Lower(FilterLogic(filter_model).s))

----------------------------------------------------------------------------
(* Sorting.  lf.sort(by, descending) is not a stable sort: rows that tie on  *)
(* every key may come out in any order, and each collect() is free to order  *)
(* them differently.  Nulls come first.                                      *)

MkSortEntry(field, direction) == [keys |-> {"field", "sort"}, field |-> field, sort |-> direction]

\* by / descending, built in the input order (entries without a field skipped)
RECURSIVE sort_keys(_)
sort_keys(sort_model) ==
    IF sort_model = << >> THEN << >>
    ELSE LET entry == Head(sort_model)
             field == IF "field" \in entry.keys THEN entry.field ELSE PyNone
             direction == IF "sort" \in entry.keys THEN entry.sort ELSE PyStr(s_asc)
         IN  (IF field = PyNone THEN << >>
              ELSE << [by |-> field, descending |-> (direction = PyStr(s_desc))] >>)
             \o sort_keys(Tail(sort_model))

\* lf.sort(by=by, descending=descending) on a name that is no column of the
\* frame: the collect of the sorted frame raises ColumnNotFoundError
sort_column_not_found(sort_model, schema) ==
    \E k \in 1..Len(sort_keys(sort_model)) :
        ~field_in_schema(sort_keys(sort_model)[k].by, schema)

\* a < b in the order of one sort key
CellBefore(a, b, descending) ==
    IF a.k = "None" THEN b.k # "None"
    ELSE IF b.k = "None" THEN FALSE
    ELSE IF a.k = "str"
         THEN (IF descending THEN CharsLess(b.s, a.s) ELSE CharsLess(a.s, b.s))
         ELSE (IF descending THEN b.n < a.n ELSE a.n < b.n)

RECURSIVE RowBefore(_, _, _, _)
RowBefore(r1, r2, keys, schema) ==
    IF keys = << >> THEN FALSE
    ELSE LET col == SchemaIndex(schema, Head(keys).by.s)
         IN  IF CellBefore(r1[col], r2[col], Head(keys).descending) THEN TRUE
             ELSE IF CellBefore(r2[col], r1[col], Head(keys).descending) THEN FALSE
             ELSE RowBefore(r1, r2, Tail(keys), schema)

\* every order of the rows at the positions idx that respects the keys
RECURSIVE Orderings(_, _, _, _)
Orderings(rows, idx, keys, schema) ==
    IF idx = {} THEN { << >> }
    ELSE UNION { { << rows[i] >> \o rest : rest \in Orderings(rows, idx \ {i}, keys, schema) } :
                 i \in { j \in idx : \A m \in idx : ~RowBefore(rows[m], rows[j], keys, schema) } }

\* apply_sort_model(lf, sort_model, schema), as _refresh_lf_grid_page calls it:
\* the possible results of collecting the sorted frame.  The schema gives the
\* column of each key; every key drawn here names a column of the schema.
apply_sort_model(lf_rows, sort_model, schema) ==
    LET keys == sort_keys(sort_model)
    IN  IF sort_model = << >> THEN { lf_rows }
        ELSE IF keys = << >> THEN { lf_rows }
        ELSE Orderings(lf_rows, 1..Len(lf_rows), keys, schema)

\* lf.slice(offset, length).collect()
Slice(rows, offset, length) ==
    IF offset >= Len(rows) \/ length <= 0 THEN << >>
    ELSE SubSeq(rows, offset + 1, IF offset + length < Len(rows) THEN offset + length ELSE Len(rows))

\* a variant of _dataframe_to_dicts that numbers the rows of each page from 0
_dataframe_to_dicts_page_index(page, offset) ==
    [i \in 1..Len(page) |-> [row_id |-> i - 1, cells |-> page[i]]]

\* page_df.with_row_index("__row_id__", offset=offset) and _dataframe_to_dicts
_dataframe_to_dicts(page, offset) ==
    [i \in 1..Len(page) |-> [row_id |-> offset + i - 1, cells |-> page[i]]]

----------------------------------------------------------------------------
(* Column definitions and lazily computed value options.                    *)

NoOptions == [has |-> FALSE, vals |-> << >>]

Options(vals) == [has |-> TRUE, vals |-> vals]

\* ColumnDef(...).dict() : the keys the grid controller reads or writes
ColDef(field, type, options) == [field |-> field, type |-> type, valueOptions |-> options]

\* build_column_defs_from_schema(schema, column_descriptions=...)
build_column_defs_from_schema(schema) ==
    [i \in 1..Len(schema) |->
        ColDef(schema[i].name,
               IF _is_categorical_dtype(schema[i].dtype) THEN "singleSelect"
               ELSE polars_dtype_to_grid_type(schema[i].dtype),
               NoOptions)]

\* sorted(values) of a set of strings
RECURSIVE SortedChars(_)
SortedChars(S) ==
    IF S = {} THEN << >>
    ELSE LET least == CHOOSE x \in S : \A y \in S : ~CharsLess(y, x)
         IN  << least >> \o SortedChars(S \ {least})

\* _infer_value_options_for_column: the column cast to String, nulls dropped,
\* unique, capped at max_unique + 1 values
\* .unique().head(max_unique + 1).collect() of a column of rows
unique_head(rows, col, dtype, max_unique) ==
    { _col_to_str_expr(rows[i][col], dtype).s :
      i \in { j \in 1..Len(rows) : rows[j][col].k # "None" } }

\* lines 194-197: no options for an empty column or one with more than
\* max_unique values (the head then holds max_unique + 1 of them)
options_of_unique(distinct, max_unique) ==
    IF distinct = {} \/ Cardinality(distinct) > max_unique
    THEN NoOptions ELSE Options(SortedChars(distinct))

_infer_value_options_for_column(lf, col_name, max_unique) ==
    options_of_unique(
        unique_head(ScanRows(lf), SchemaIndex(collect_schema(lf), col_name),
                    collect_schema(lf)[SchemaIndex(collect_schema(lf), col_name)].dtype,
                    max_unique),
        max_unique)

\* _resolve_field_name(raw_field, schema): the schema's column for a field
\* name, an exact match first, else one that differs only in letter case,
\* else None
_resolve_field_name(raw_field, schema) ==
    IF raw_field.k # "str" THEN PyNone
    ELSE IF SchemaHas(schema, raw_field.s) THEN raw_field
    ELSE IF \E i \in 1..Len(schema) : Lower(schema[i].name) = Lower(raw_field.s)
    THEN PyStr(schema[CHOOSE i \in 1..Len(schema) :
                        /\ Lower(schema[i].name) = Lower(raw_field.s)
                        /\ \A j \in 1..(i - 1) : Lower(schema[j].name) # Lower(raw_field.s)].name)
    ELSE PyNone

_DEFAULT_CHUNK_SIZE == 200
_DEFAULT_VALUE_OPTIONS_MAX_UNIQUE == 500

\* _LazyFrameCache() : a fresh cache entry
NoLazyFrame == "None"

_LazyFrameCache ==
    [lf |-> NoLazyFrame, schema |-> << >>, col_defs |-> << >>, total_rows |-> 0,
     value_options_max_unique |-> _DEFAULT_VALUE_OPTIONS_MAX_UNIQUE,
     _value_options_cache |-> << >>]

\* a variant that returns the options without storing them
store_value_options_forgets(cache, col_name, options, scanned) ==
    [cache |-> cache, options |-> options, scanned |-> scanned]

\* cache._value_options_cache[col_name] = options; return options
store_value_options(cache, col_name, options, scanned) ==
    [cache |-> [cache EXCEPT !._value_options_cache = OrderedDictSet(@, col_name, options)],
     options |-> options, scanned |-> scanned]

\* _get_or_compute_value_options(cache, col_name): [cache, options, scanned]
_get_or_compute_value_options(cache, col_name) ==
    IF OrderedDictHas(cache._value_options_cache, col_name)
    THEN [cache |-> cache, options |-> OrderedDictGet(cache._value_options_cache, col_name),
          scanned |-> FALSE]
    ELSE IF cache.lf = NoLazyFrame \/ ~SchemaHas(cache.schema, col_name.s)
    THEN [cache |-> cache, options |-> NoOptions, scanned |-> FALSE]
    ELSE IF cache.schema[SchemaIndex(cache.schema, col_name.s)].dtype
                \notin {"String", "Categorical", "Enum"}
    THEN store_value_options(cache, col_name, NoOptions, FALSE)
    ELSE store_value_options(
             cache, col_name,
             _infer_value_options_for_column(cache.lf, col_name.s, cache.value_options_max_unique),
             TRUE)

\* for i, col_def in enumerate(cache.col_defs): first match becomes singleSelect
upgrade_col_def(col_defs, field, options) ==
    IF \E i \in 1..Len(col_defs) : col_defs[i].field = field.s
    THEN [col_defs EXCEPT ![CHOOSE i \in 1..Len(col_defs) :
                              /\ col_defs[i].field = field.s
                              /\ \A j \in 1..(i - 1) : col_defs[j].field # field.s] =
                [@ EXCEPT !.type = "singleSelect", !.valueOptions = options]]
    ELSE col_defs

\* lines 674-685 of _ensure_value_options_for_filter: r is what
\* _get_or_compute_value_options returned; acc is [cache, columns_updated, scanned]
upgrade_column(acc, field, r) ==
    IF r.options.has
    THEN [cache |-> [r.cache EXCEPT !.col_defs = upgrade_col_def(@, field, r.options)],
          columns_updated |-> acc.columns_updated
                              \/ \E i \in 1..Len(r.cache.col_defs) : r.cache.col_defs[i].field = field.s,
          scanned |-> acc.scanned \/ r.scanned]
    ELSE [acc EXCEPT !.cache = r.cache, !.scanned = @ \/ r.scanned]

\* lines 666-672: skip an item without a field, with a field that resolves to
\* no column, or with a column whose options are cached
ensure_field(acc, raw_field, field) ==
    IF ~Truthy(raw_field) THEN acc
    ELSE IF ~Truthy(field) \/ OrderedDictHas(acc.cache._value_options_cache, field) THEN acc
    ELSE upgrade_column(acc, field, _get_or_compute_value_options(acc.cache, field))

\* the loop of _ensure_value_options_for_filter over the filter's items
RECURSIVE ensure_items(_, _)
ensure_items(acc, items) ==
    IF items = << >> THEN acc
    ELSE ensure_items(
             ensure_field(acc, ItemGet(Head(items), "field"),
                          _resolve_field_name(ItemGet(Head(items), "field"), acc.cache.schema)),
             Tail(items))

----------------------------------------------------------------------------
(* The session: LazyFrameGridMixin's state vars and the cache registry.     *)

\* type(self).__name__ of the state class
StateClassName == "GridState"

CacheIds == {StateClassName}

\* _get_cache(cache_id): the registry with an entry for cache_id
_get_cache(registry, cache_id) ==
    IF cache_id \in registry.ids THEN registry
    ELSE [ids |-> registry.ids \cup {cache_id},
          entry |-> [registry.entry EXCEPT ![cache_id] = _LazyFrameCache]]

StatsText(text, offset) == [text |-> text, offset |-> offset, n |-> 0, loaded |-> 0, total |-> 0]

\* f"offset={offset}  +{len(rows)} rows  loaded={total_loaded} / {row_count}  ({mode})"
StatsPage(mode, offset, n, loaded, total) ==
    [text |-> mode, offset |-> offset, n |-> n, loaded |-> loaded, total |-> total]

InfoText(text, a, b, c) == [text |-> text, a |-> a, b |-> b, c |-> c]

UIEmptyFilterModel == MkFilterModel({"items"}, << >>, PyNone)

Pagination(page, page_size) == [page |-> page, pageSize |-> page_size]

\* a step of a handler: at is "yield" (suspended at its yield), "done" (ran to
\* its end), "return" (left by an early return) or "raised" (left by an exception)
Step(h, at) == [h |-> h, at |-> at]

\* the session as one record: the fields of self, the registry, and the log
Self ==
    [rows |-> lf_grid_rows, columns |-> lf_grid_columns, row_count |-> lf_grid_row_count,
     loading |-> lf_grid_loading, loaded |-> lf_grid_loaded, stats |-> lf_grid_stats,
     selected_info |-> lf_grid_selected_info, filter_debug |-> lf_grid_filter_debug,
     preset_json |-> lf_grid_filter_preset_json, filter_model |-> lf_grid_filter_model,
     active_filter_fields |-> lf_grid_active_filter_fields,
     pagination_model |-> lf_grid_pagination_model,
     filter |-> _lf_grid_filter, sort |-> _lf_grid_sort, cache_id |-> _lf_grid_cache_id,
     registry |-> _cache_registry, queries |-> last_queries, chunk_log |-> chunk_log,
     step |-> last_step]

\* the session after a handler step
Becomes(self) ==
    /\ lf_grid_rows' = self.rows
    /\ lf_grid_columns' = self.columns
    /\ lf_grid_row_count' = self.row_count
    /\ lf_grid_loading' = self.loading
    /\ lf_grid_loaded' = self.loaded
    /\ lf_grid_stats' = self.stats
    /\ lf_grid_selected_info' = self.selected_info
    /\ lf_grid_filter_debug' = self.filter_debug
    /\ lf_grid_filter_preset_json' = self.preset_json
    /\ lf_grid_filter_model' = self.filter_model
    /\ lf_grid_active_filter_fields' = self.active_filter_fields
    /\ lf_grid_pagination_model' = self.pagination_model
    /\ _lf_grid_filter' = self.filter
    /\ _lf_grid_sort' = self.sort
    /\ _lf_grid_cache_id' = self.cache_id
    /\ _cache_registry' = self.registry
    /\ last_queries' = self.queries
    /\ chunk_log' = self.chunk_log
    /\ last_step' = self.step

\* lines 779-801 of _refresh_lf_grid_page: the page of one collect of the
\* sorted frame, stored or appended
store_page(self, registry, sorted, row_count, offset, page_size, append, refresh_row_count) ==
    [self EXCEPT
       !.row_count = row_count,
       !.registry = IF refresh_row_count
                    THEN [registry EXCEPT !.entry[self.cache_id].total_rows = row_count]
                    ELSE registry,
       !.rows = IF append
                THEN @ \o _dataframe_to_dicts(Slice(sorted, offset, page_size), offset)
                ELSE _dataframe_to_dicts(Slice(sorted, offset, page_size), offset),
       !.stats = StatsPage(IF append THEN "append" ELSE "replace", offset,
                           Len(Slice(sorted, offset, page_size)),
                           IF append THEN Len(self.rows) + Len(Slice(sorted, offset, page_size))
                           ELSE Len(Slice(sorted, offset, page_size)),
                           row_count),
       !.queries = @ \cup (IF refresh_row_count THEN {"count"} ELSE {}) \cup {"slice"},
       !.chunk_log = IF append THEN Append(@, offset) ELSE << offset >>]

\* line 782 of _refresh_lf_grid_page when the collect of the page raises: the
\* row count is stored already, the rows are not, and the handler ends there
collect_raised(self, registry, row_count, refresh_row_count) ==
    [self EXCEPT
       !.row_count = row_count,
       !.registry = IF refresh_row_count
                    THEN [registry EXCEPT !.entry[self.cache_id].total_rows = row_count]
                    ELSE registry,
       !.queries = @ \cup (IF refresh_row_count THEN {"count"} ELSE {}) \cup {"slice"},
       !.step = Step(self.step.h, "raised")]

\* a variant that counts the rows of the page slice instead of the filtered frame
page_of_filtered_counts_page(self, registry, schema, filtered, append, refresh_row_count) ==
    { store_page(self, registry, sorted,
                 IF refresh_row_count
                 THEN Len(Slice(filtered,
                                self.pagination_model.page * self.pagination_model.pageSize,
                                self.pagination_model.pageSize))
                 ELSE self.row_count,
                 self.pagination_model.page * self.pagination_model.pageSize,
                 self.pagination_model.pageSize, append, refresh_row_count)
      : sorted \in (IF self.sort # << >>
                    THEN apply_sort_model(filtered, self.sort, schema)
                    ELSE { filtered }) }

\* lines 765-776: the row count of the filtered frame (when asked for), then
\* its sort; filtered is the frame after apply_filter_model
page_of_filtered(self, registry, schema, filtered, append, refresh_row_count) ==
    IF self.sort # << >> /\ sort_column_not_found(self.sort, schema)
    THEN { collect_raised(self, registry,
                          IF refresh_row_count THEN Len(filtered) ELSE self.row_count,
                          refresh_row_count) }
    ELSE
    { store_page(self, registry, sorted,
                 IF refresh_row_count THEN Len(filtered) ELSE self.row_count,
                 self.pagination_model.page * self.pagination_model.pageSize,
                 self.pagination_model.pageSize, append, refresh_row_count)
      : sorted \in (IF self.sort # << >>
                    THEN apply_sort_model(filtered, self.sort, schema)
                    ELSE { filtered }) }

\* lines 746-758: the cache entry and the filtered frame
page_of_cache(self, registry, cache, append, refresh_row_count) ==
    IF cache.lf = NoLazyFrame THEN { [self EXCEPT !.registry = registry] }
    ELSE page_of_filtered(
             self, registry, cache.schema,
             IF self.filter # EmptyDict /\ FilterItems(self.filter) # << >>
             THEN apply_filter_model(ScanRows(cache.lf), self.filter, cache.schema)
             ELSE ScanRows(cache.lf),
             append, refresh_row_count)

\* _refresh_lf_grid_page(append, refresh_row_count): the possible outcomes
_refresh_lf_grid_page(self, append, refresh_row_count) ==
    IF self.cache_id = "" THEN { self }
    ELSE page_of_cache(self, _get_cache(self.registry, self.cache_id),
                       _get_cache(self.registry, self.cache_id).entry[self.cache_id],
                       append, refresh_row_count)

\* lines 687-688 of _ensure_value_options_for_filter: r is what the loop over
\* the items left
publish_columns(self, registry, r) ==
    [self EXCEPT
       !.registry = [registry EXCEPT !.entry[self.cache_id] = r.cache],
       !.columns = IF r.columns_updated THEN r.cache.col_defs ELSE @,
       !.queries = @ \cup (IF r.scanned THEN {"distinct"} ELSE {})]

\* lines 655-665: the early returns, then the loop
ensure_in_cache(self, registry, cache, filter_model) ==
    IF cache.lf = NoLazyFrame \/ cache.schema = << >>
    THEN [self EXCEPT !.registry = registry]
    ELSE publish_columns(
             self, registry,
             ensure_items([cache |-> cache, columns_updated |-> FALSE, scanned |-> FALSE],
                          FilterItems(filter_model)))

\* _ensure_value_options_for_filter(filter_model)
_ensure_value_options_for_filter(self, filter_model) ==
    IF self.cache_id = "" THEN self
    ELSE ensure_in_cache(self, _get_cache(self.registry, self.cache_id),
                         _get_cache(self.registry, self.cache_id).entry[self.cache_id],
                         filter_model)

\* the preset that _regenerate_query_code serialises: json.dumps(preset) when
\* it has content, else ""
NoPresetJson == [text |-> FALSE, filter_model |-> EmptyDict, sort_model |-> << >>]

PresetJson(filter_model, sort_model) ==
    [text |-> TRUE, filter_model |-> filter_model, sort_model |-> sort_model]

_regenerate_query_code(self) ==
    IF self.cache_id = "" THEN self
    ELSE LET has_content == FilterItems(self.filter) # << >> \/ self.sort # << >>
         IN  [self EXCEPT
                !.registry = _get_cache(self.registry, self.cache_id),
                !.preset_json = IF has_content THEN PresetJson(self.filter, self.sort)
                                ELSE NoPresetJson]

\* active_fields of _update_filter_debug: the truthy fields of the items
RECURSIVE active_fields(_)
active_fields(items) ==
    IF items = << >> THEN << >>
    ELSE (IF Truthy(ItemGet(Head(items), "field")) THEN << ItemGet(Head(items), "field") >>
          ELSE << >>)
         \o active_fields(Tail(items))

Upper(chars) ==
    [i \in 1..Len(chars) |->
        IF \E j \in 1..26 : LowerLetters[j] = chars[i]
        THEN UpperLetters[CHOOSE j \in 1..26 : LowerLetters[j] = chars[i]]
        ELSE chars[i]]

\* the text of _update_filter_debug, line by line: the logic operator in upper
\* case, one line per filter item and one per sort entry
InitialFilterDebug == [initial |-> TRUE, logic |-> << >>, filters |-> << >>, sorts |-> << >>]

FilterDebug(filter, sort) ==
    LET items == IF filter # EmptyDict THEN FilterItems(filter) ELSE << >>
    IN  [initial |-> FALSE,
         logic |-> IF items # << >> THEN Upper(FilterLogic(filter).s) ELSE << >>,
         filters |-> [i \in 1..Len(items) |->
                        [field |-> ItemGetDefault(items[i], "field", PyStr(<< "?" >>)),
                         operator |-> ItemGetDefault(items[i], "operator", PyStr(<< "?" >>)),
                         value |-> ItemGet(items[i], "value")]],
         sorts |-> [i \in 1..Len(sort) |->
                        [field |-> IF "field" \in sort[i].keys THEN sort[i].field ELSE PyStr(<< "?" >>),
                         sort |-> IF "sort" \in sort[i].keys THEN sort[i].sort ELSE PyStr(s_asc)]]]

_update_filter_debug(self) ==
    LET items == IF self.filter # EmptyDict THEN FilterItems(self.filter) ELSE << >>
    IN  [self EXCEPT !.active_filter_fields = active_fields(items),
                     !.filter_debug = FilterDebug(self.filter, self.sort)]

\* a variant of the page reset that keeps the page where the scroll left it
reset_page_keeps_page(self) == self

\* page_size = pagination_model.get("pageSize", ...); pagination_model = {"page": 0, ...}
reset_page(self) ==
    [self EXCEPT !.pagination_model = Pagination(0, self.pagination_model.pageSize)]

\* what follows a replacing refresh in the filter, sort, clear and preset handlers
after_refresh(self) ==
    IF self.step.at = "raised" THEN self
    ELSE [_update_filter_debug(_regenerate_query_code(self)) EXCEPT !.loading = FALSE]

----------------------------------------------------------------------------
(* Event handlers.  Each handler is a generator: the code up to its yield    *)
(* is one step (the frontend then sees the loading state), the code after    *)
(* the yield another.  A frame holds the arguments and locals of a handler   *)
(* suspended at its yield.                                                   *)

NoPayload == [parses |-> FALSE, keys |-> {}, filter_model |-> EmptyDict, sort_model |-> << >>]

Frame(h, fm, sm, page, page_size, lf, chunk_size, max_unique, payload) ==
    [h |-> h, fm |-> fm, sm |-> sm, page |-> page, page_size |-> page_size, lf |-> lf,
     chunk_size |-> chunk_size, max_unique |-> max_unique, payload |-> payload]

RemoveAt(seq, i) == SubSeq(seq, 1, i - 1) \o SubSeq(seq, i + 1, Len(seq))

\* set_lazyframe, after its yield (lines 337-374)
set_lazyframe_body(self, f) ==
    LET cache_id == StateClassName
        registry == _get_cache(self.registry, cache_id)
        schema == collect_schema(f.lf)
        col_defs == build_column_defs_from_schema(schema)
        cache == [registry.entry[cache_id] EXCEPT
                    !.lf = f.lf,
                    !.value_options_max_unique = f.max_unique,
                    !._value_options_cache = << >>,
                    !.schema = schema,
                    !.col_defs = col_defs]
        s1 == [self EXCEPT
                 !.queries = {},
                 !.step = Step("set_lazyframe", "done"),
                 !.cache_id = cache_id,
                 !.registry = [registry EXCEPT !.entry[cache_id] = cache],
                 !.columns = col_defs,
                 !.loaded = TRUE,
                 !.filter = EmptyDict,
                 !.sort = << >>,
                 !.filter_model = UIEmptyFilterModel,
                 !.active_filter_fields = << >>,
                 !.pagination_model = Pagination(0, f.chunk_size)]
    IN  { [r EXCEPT !.loading = FALSE,
                    !.selected_info = InfoText("Ready", r.row_count, 0, 0)]
          : r \in _refresh_lf_grid_page(s1, FALSE, TRUE) }

\* a variant of _merge_filter_model that takes the incoming model as it is
_merge_filter_model_replaces(self, incoming) ==
    IF FilterItems(incoming) = << >> THEN EmptyDict ELSE incoming

\* _merge_filter_model(incoming): merge_filter_model on the accumulated filter
_merge_filter_model(self, incoming) == merge_filter_model(self.filter, incoming)

\* lines 415-418 of handle_lf_grid_filter: the merged filter, and page 0
set_merged_filter(self, filter_model) ==
    reset_page([self EXCEPT !.filter = _merge_filter_model(self, filter_model)])

\* a variant that drops the accumulated sort when the filter changes
handle_lf_grid_filter_body_resets_sort(self, filter_model) ==
    { after_refresh(r) :
      r \in _refresh_lf_grid_page(
               set_merged_filter(
                   _ensure_value_options_for_filter(
                       [self EXCEPT !.queries = {}, !.step = Step("filter", "done"),
                                    !.filter_model = filter_model, !.sort = << >>],
                       filter_model),
                   filter_model),
               FALSE, TRUE) }

\* handle_lf_grid_filter, after its yield (lines 409-422)
handle_lf_grid_filter_body(self, filter_model) ==
    { after_refresh(r) :
      r \in _refresh_lf_grid_page(
               set_merged_filter(
                   _ensure_value_options_for_filter(
                       [self EXCEPT !.queries = {}, !.step = Step("filter", "done"),
                                    !.filter_model = filter_model],
                       filter_model),
                   filter_model),
               FALSE, TRUE) }

\* a variant that adds the incoming entries to the accumulated sort model
handle_lf_grid_sort_body_merges(self, sort_model) ==
    LET s1 == reset_page([self EXCEPT !.queries = {}, !.step = Step("sort", "done"),
                                      !.sort = self.sort \o sort_model])
    IN  { after_refresh(r) : r \in _refresh_lf_grid_page(s1, FALSE, TRUE) }

\* handle_lf_grid_sort, after its yield (lines 434-440)
handle_lf_grid_sort_body(self, sort_model) ==
    LET s1 == reset_page([self EXCEPT !.queries = {}, !.step = Step("sort", "done"),
                                      !.sort = sort_model])
    IN  { after_refresh(r) : r \in _refresh_lf_grid_page(s1, FALSE, TRUE) }

\* a variant that replaces the buffer by the next chunk
handle_lf_grid_scroll_end_body_replaces(self, page, page_size) ==
    LET s1 == [self EXCEPT !.queries = {}, !.step = Step("scroll", "done"),
                           !.pagination_model = Pagination(page + 1, page_size)]
    IN  { [r EXCEPT !.loading = FALSE] : r \in _refresh_lf_grid_page(s1, FALSE, FALSE) }

\* handle_lf_grid_scroll_end, after its yield (lines 461-466); page and
\* page_size are the locals read before the yield
handle_lf_grid_scroll_end_body(self, page, page_size) ==
    LET s1 == [self EXCEPT !.queries = {}, !.step = Step("scroll", "done"),
                           !.pagination_model = Pagination(page + 1, page_size)]
    IN  { [r EXCEPT !.loading = IF r.step.at = "raised" THEN @ ELSE FALSE]
          : r \in _refresh_lf_grid_page(s1, TRUE, FALSE) }

\* a variant that resets the UI filter model and the page, not the
\* accumulated filter
clear_lf_grid_filters_body_keeps_filter(self) ==
    LET s1 == reset_page([self EXCEPT !.queries = {}, !.step = Step("clear", "done"),
                                      !.filter_model = UIEmptyFilterModel])
    IN  { after_refresh(r) : r \in _refresh_lf_grid_page(s1, FALSE, TRUE) }

\* clear_lf_grid_filters, after its yield (lines 507-514)
clear_lf_grid_filters_body(self) ==
    LET s1 == reset_page([self EXCEPT !.queries = {}, !.step = Step("clear", "done"),
                                      !.filter = EmptyDict,
                                      !.filter_model = UIEmptyFilterModel])
    IN  { after_refresh(r) : r \in _refresh_lf_grid_page(s1, FALSE, TRUE) }

\* a variant that merges the filter of the preset into the accumulated filter
handle_lf_grid_preset_upload_body_merges(self, payload) ==
    LET filter_model == IF "filter_model" \in payload.keys THEN payload.filter_model ELSE EmptyDict
        sort_model == IF "sort_model" \in payload.keys THEN payload.sort_model ELSE << >>
        items == FilterItems(filter_model)
        ui == IF items # << >>
              THEN MkFilterModel({"items", "logicOperator"}, << items[Len(items)] >>,
                                 FilterLogic(filter_model))
              ELSE UIEmptyFilterModel
        s1 == reset_page([self EXCEPT !.queries = {}, !.step = Step("preset", "done"),
                                      !.filter = merge_filter_model(self.filter, filter_model),
                                      !.sort = sort_model, !.filter_model = ui])
    IN  { LET done == after_refresh(r)
          IN  [done EXCEPT !.selected_info =
                    InfoText("Preset applied", Len(items), Len(sort_model), done.row_count)]
          : r \in _refresh_lf_grid_page(s1, FALSE, TRUE) }

\* handle_lf_grid_preset_upload, after its yield (lines 547-583), for a
\* payload that json.loads accepts
handle_lf_grid_preset_upload_body(self, payload) ==
    LET filter_model == IF "filter_model" \in payload.keys THEN payload.filter_model ELSE EmptyDict
        sort_model == IF "sort_model" \in payload.keys THEN payload.sort_model ELSE << >>
        items == FilterItems(filter_model)
        ui == IF items # << >>
              THEN MkFilterModel({"items", "logicOperator"}, << items[Len(items)] >>,
                                 FilterLogic(filter_model))
              ELSE UIEmptyFilterModel
        s1 == reset_page([self EXCEPT !.queries = {}, !.step = Step("preset", "done"),
                                      !.filter = filter_model,
                                      !.sort = sort_model, !.filter_model = ui])
    IN  { LET done == after_refresh(r)
          IN  [done EXCEPT !.selected_info =
                    IF done.step.at = "raised" THEN @
                    ELSE InfoText("Preset applied", Len(items), Len(sort_model),
                                  done.row_count)]
          : r \in _refresh_lf_grid_page(s1, FALSE, TRUE) }

----------------------------------------------------------------------------
(* The steps of the handlers.                                               *)

set_lazyframe_start(lf, chunk_size, max_unique) ==
    /\ Becomes([Self EXCEPT !.queries = {}, !.step = Step("set_lazyframe", "yield"),
                            !.loading = TRUE,
                            !.selected_info = InfoText("Preparing LazyFrame...", 0, 0, 0)])
    /\ inflight' = Append(inflight, Frame("set_lazyframe", EmptyDict, << >>, 0, 0, lf,
                                          chunk_size, max_unique, NoPayload))
    /\ UNCHANGED << merge_call, peer, query_call, preset_file >>

set_lazyframe_resume(i) ==
    /\ inflight[i].h = "set_lazyframe"
    /\ \E out \in set_lazyframe_body(Self, inflight[i]) : Becomes(out)
    /\ inflight' = RemoveAt(inflight, i)
    /\ UNCHANGED << merge_call, peer, query_call, preset_file >>

\* a variant of the first step of handle_lf_grid_filter that yields without
\* ``self.lf_grid_loading = True``
handle_lf_grid_filter_start_not_loading(filter_model) ==
    /\ Becomes([Self EXCEPT !.queries = {}, !.step = Step("filter", "yield"),
                            !.stats = StatsText("Filtering...", 0)])
    /\ inflight' = Append(inflight, Frame("filter", filter_model, << >>, 0, 0, NoLazyFrame,
                                          0, 0, NoPayload))
    /\ UNCHANGED << merge_call, peer, query_call, preset_file >>

handle_lf_grid_filter_start(filter_model) ==
    /\ Becomes([Self EXCEPT !.queries = {}, !.step = Step("filter", "yield"),
                            !.loading = TRUE,
                            !.stats = StatsText("Filtering...", 0)])
    /\ inflight' = Append(inflight, Frame("filter", filter_model, << >>, 0, 0, NoLazyFrame,
                                          0, 0, NoPayload))
    /\ UNCHANGED << merge_call, peer, query_call, preset_file >>

handle_lf_grid_filter_resume(i) ==
    /\ inflight[i].h = "filter"
    /\ \E out \in handle_lf_grid_filter_body(Self, inflight[i].fm) : Becomes(out)
    /\ inflight' = RemoveAt(inflight, i)
    /\ UNCHANGED << merge_call, peer, query_call, preset_file >>

handle_lf_grid_sort_start(sort_model) ==
    /\ Becomes([Self EXCEPT !.queries = {}, !.step = Step("sort", "yield"),
                            !.loading = TRUE,
                            !.stats = StatsText("Sorting...", 0)])
    /\ inflight' = Append(inflight, Frame("sort", EmptyDict, sort_model, 0, 0, NoLazyFrame,
                                          0, 0, NoPayload))
    /\ UNCHANGED << merge_call, peer, query_call, preset_file >>

handle_lf_grid_sort_resume(i) ==
    /\ inflight[i].h = "sort"
    /\ \E out \in handle_lf_grid_sort_body(Self, inflight[i].sm) : Becomes(out)
    /\ inflight' = RemoveAt(inflight, i)
    /\ UNCHANGED << merge_call, peer, query_call, preset_file >>

\* a variant of the first step of handle_lf_grid_scroll_end without the
\* ``if self.lf_grid_loading: return`` gate
handle_lf_grid_scroll_end_start_ungated ==
    /\ IF (lf_grid_pagination_model.page + 1) * lf_grid_pagination_model.pageSize
             >= lf_grid_row_count
       THEN /\ Becomes([Self EXCEPT !.queries = {}, !.step = Step("scroll", "return")])
            /\ UNCHANGED inflight
       ELSE /\ Becomes([Self EXCEPT
                          !.queries = {}, !.step = Step("scroll", "yield"), !.loading = TRUE,
                          !.stats = StatsText("Loading rows",
                                              (lf_grid_pagination_model.page + 1)
                                              * lf_grid_pagination_model.pageSize)])
            /\ inflight' = Append(inflight,
                                  Frame("scroll", EmptyDict, << >>, lf_grid_pagination_model.page,
                                        lf_grid_pagination_model.pageSize, NoLazyFrame, 0, 0,
                                        NoPayload))
    /\ UNCHANGED << merge_call, peer, query_call, preset_file >>

\* a variant without the ``if next_offset >= self.lf_grid_row_count: return`` check
handle_lf_grid_scroll_end_start_unbounded ==
    /\ IF lf_grid_loading
       THEN /\ Becomes([Self EXCEPT !.queries = {}, !.step = Step("scroll", "return")])
            /\ UNCHANGED inflight
       ELSE /\ Becomes([Self EXCEPT
                          !.queries = {}, !.step = Step("scroll", "yield"), !.loading = TRUE,
                          !.stats = StatsText("Loading rows",
                                              (lf_grid_pagination_model.page + 1)
                                              * lf_grid_pagination_model.pageSize)])
            /\ inflight' = Append(inflight,
                                  Frame("scroll", EmptyDict, << >>, lf_grid_pagination_model.page,
                                        lf_grid_pagination_model.pageSize, NoLazyFrame, 0, 0,
                                        NoPayload))
    /\ UNCHANGED << merge_call, peer, query_call, preset_file >>

\* lines 448-459: the two early returns, else loading and the yield
handle_lf_grid_scroll_end_start ==
    LET page == lf_grid_pagination_model.page
        page_size == lf_grid_pagination_model.pageSize
        next_offset == (page + 1) * page_size
    IN  /\ IF lf_grid_loading
           THEN /\ Becomes([Self EXCEPT !.queries = {}, !.step = Step("scroll", "return")])
                /\ UNCHANGED inflight
           ELSE IF next_offset >= lf_grid_row_count
           THEN /\ Becomes([Self EXCEPT !.queries = {}, !.step = Step("scroll", "return")])
                /\ UNCHANGED inflight
           ELSE /\ Becomes([Self EXCEPT !.queries = {}, !.step = Step("scroll", "yield"),
                                        !.loading = TRUE,
                                        !.stats = StatsText("Loading rows", next_offset)])
                /\ inflight' = Append(inflight, Frame("scroll", EmptyDict, << >>, page,
                                                      page_size, NoLazyFrame, 0, 0, NoPayload))
        /\ UNCHANGED << merge_call, peer, query_call, preset_file >>

handle_lf_grid_scroll_end_resume(i) ==
    /\ inflight[i].h = "scroll"
    /\ \E out \in handle_lf_grid_scroll_end_body(Self, inflight[i].page, inflight[i].page_size) :
          Becomes(out)
    /\ inflight' = RemoveAt(inflight, i)
    /\ UNCHANGED << merge_call, peer, query_call, preset_file >>

clear_lf_grid_filters_start ==
    /\ Becomes([Self EXCEPT !.queries = {}, !.step = Step("clear", "yield"),
                            !.loading = TRUE,
                            !.stats = StatsText("Clearing filters...", 0)])
    /\ inflight' = Append(inflight, Frame("clear", EmptyDict, << >>, 0, 0, NoLazyFrame,
                                          0, 0, NoPayload))
    /\ UNCHANGED << merge_call, peer, query_call, preset_file >>

clear_lf_grid_filters_resume(i) ==
    /\ inflight[i].h = "clear"
    /\ \E out \in clear_lf_grid_filters_body(Self) : Becomes(out)
    /\ inflight' = RemoveAt(inflight, i)
    /\ UNCHANGED << merge_call, peer, query_call, preset_file >>

\* lines 540-545, for a non-empty list of uploaded files
handle_lf_grid_preset_upload_start(payload) ==
    /\ Becomes([Self EXCEPT !.queries = {}, !.step = Step("preset", "yield"),
                            !.loading = TRUE,
                            !.stats = StatsText("Applying preset...", 0)])
    /\ inflight' = Append(inflight, Frame("preset", EmptyDict, << >>, 0, 0, NoLazyFrame,
                                          0, 0, payload))
    /\ UNCHANGED << merge_call, peer, query_call, preset_file >>

\* json.loads raises on a payload that is not JSON: the handler ends there
handle_lf_grid_preset_upload_resume(i) ==
    /\ inflight[i].h = "preset"
    /\ IF inflight[i].payload.parses
       THEN \E out \in handle_lf_grid_preset_upload_body(Self, inflight[i].payload) : Becomes(out)
       ELSE Becomes([Self EXCEPT !.queries = {}, !.step = Step("preset", "raised")])
    /\ inflight' = RemoveAt(inflight, i)
    /\ UNCHANGED << merge_call, peer, query_call, preset_file >>

----------------------------------------------------------------------------
(* Downloading the preset.  json.dumps writes a str as a JSON string, an    *)
(* int as a number, True and False as true and false, None as null, a dict  *)
(* as an object with its keys and a list as an array; json.loads reads them *)
(* back.                                                                    *)

json_dumps_value(v) ==
    CASE v.k = "None" -> [j |-> "null", s |-> << >>, n |-> 0]
      [] v.k = "str"  -> [j |-> "string", s |-> v.s, n |-> 0]
      [] v.k = "int"  -> [j |-> "number", s |-> << >>, n |-> v.n]
      [] v.k = "bool" -> [j |-> IF v.n = 1 THEN "true" ELSE "false", s |-> << >>, n |-> 0]

json_loads_value(t) ==
    CASE t.j = "null"   -> PyNone
      [] t.j = "string" -> PyStr(t.s)
      [] t.j = "number" -> PyInt(t.n)
      [] t.j = "true"   -> PyBool(TRUE)
      [] t.j = "false"  -> PyBool(FALSE)

\* an object: its keys, and the JSON value of each member the model holds
json_dumps_item(item) ==
    [keys |-> item.keys, field |-> json_dumps_value(item.field),
     operator |-> json_dumps_value(item.operator), value |-> json_dumps_value(item.value),
     id |-> json_dumps_value(item.id)]

json_loads_item(t) ==
    [keys |-> t.keys, field |-> json_loads_value(t.field),
     operator |-> json_loads_value(t.operator), value |-> json_loads_value(t.value),
     id |-> json_loads_value(t.id)]

json_dumps_filter(fm) ==
    [keys |-> fm.keys, items |-> [i \in 1..Len(fm.items) |-> json_dumps_item(fm.items[i])],
     logicOperator |-> json_dumps_value(fm.logicOperator)]

json_loads_filter(t) ==
    [keys |-> t.keys, items |-> [i \in 1..Len(t.items) |-> json_loads_item(t.items[i])],
     logicOperator |-> json_loads_value(t.logicOperator)]

json_dumps_sort(sm) ==
    [i \in 1..Len(sm) |-> [keys |-> sm[i].keys, field |-> json_dumps_value(sm[i].field),
                           sort |-> json_dumps_value(sm[i].sort)]]

json_loads_sort(t) ==
    [i \in 1..Len(t) |-> [keys |-> t[i].keys, field |-> json_loads_value(t[i].field),
                          sort |-> json_loads_value(t[i].sort)]]

\* json.dumps({"filter_model": ..., "sort_model": ...}, indent=2, ensure_ascii=False)
json_dumps(preset) ==
    [filter_model |-> json_dumps_filter(preset.filter_model),
     sort_model |-> json_dumps_sort(preset.sort_model)]

\* json.loads of the text of a file that json.dumps wrote: the payload the
\* upload handler reads
json_loads(text) ==
    [parses |-> TRUE, keys |-> {"filter_model", "sort_model"},
     filter_model |-> json_loads_filter(text.filter_model),
     sort_model |-> json_loads_sort(text.sort_model)]

NoPresetFile ==
    [saved |-> FALSE, data |-> json_dumps([filter_model |-> EmptyDict, sort_model |-> << >>]),
     at |-> [filter |-> EmptyDict, sort |-> << >>, row_count |-> 0, page |-> << >>,
             cache_id |-> ""]]

\* download_lf_grid_preset (lines 516-529): rx.download of the dumped preset
\* as filter_preset.json; at is the session as it was then
download_lf_grid_preset ==
    /\ preset_file' =
          [saved |-> TRUE,
           data |-> json_dumps([filter_model |-> _lf_grid_filter, sort_model |-> _lf_grid_sort]),
           at |-> [filter |-> _lf_grid_filter, sort |-> _lf_grid_sort,
                   row_count |-> lf_grid_row_count,
                   page |-> Slice(lf_grid_rows, 0, lf_grid_pagination_model.pageSize),
                   cache_id |-> _lf_grid_cache_id]]
    /\ UNCHANGED << lf_grid_rows, lf_grid_columns, lf_grid_row_count, lf_grid_loading,
                    lf_grid_loaded, lf_grid_stats, lf_grid_selected_info,
                    lf_grid_filter_debug, lf_grid_filter_preset_json,
                    lf_grid_filter_model, lf_grid_active_filter_fields,
                    lf_grid_pagination_model, _lf_grid_filter, _lf_grid_sort,
                    _lf_grid_cache_id, _cache_registry, inflight, last_queries,
                    chunk_log, last_step, merge_call, peer, query_call >>

----------------------------------------------------------------------------
(* A second session: another instance of the same state class (another      *)
(* browser tab), with its own state vars and the module-level registry.  A  *)
(* handler of the peer is taken from its event to its end.                  *)

PeerSelf == [f \in DOMAIN Self |-> IF f = "registry" THEN _cache_registry ELSE peer[f]]

PeerBecomes(self) ==
    /\ peer' = [f \in DOMAIN peer |-> self[f]]
    /\ _cache_registry' = self.registry
    /\ UNCHANGED << lf_grid_rows, lf_grid_columns, lf_grid_row_count, lf_grid_loading,
                    lf_grid_loaded, lf_grid_stats, lf_grid_selected_info,
                    lf_grid_filter_debug, lf_grid_filter_preset_json,
                    lf_grid_filter_model, lf_grid_active_filter_fields,
                    lf_grid_pagination_model, _lf_grid_filter, _lf_grid_sort,
                    _lf_grid_cache_id, inflight, last_queries, chunk_log, last_step,
                    merge_call, query_call, preset_file >>

\* set_lazyframe of the peer
peer_set_lazyframe(lf, chunk_size, max_unique) ==
    \E out \in set_lazyframe_body(
                  PeerSelf,
                  Frame("set_lazyframe", EmptyDict, << >>, 0, 0, lf, chunk_size, max_unique,
                        NoPayload)) :
        PeerBecomes(out)

\* handle_lf_grid_filter of the peer
peer_handle_lf_grid_filter(filter_model) ==
    \E out \in handle_lf_grid_filter_body(
                  [PeerSelf EXCEPT !.stats = StatsText("Filtering...", 0)], filter_model) :
        PeerBecomes(out)

----------------------------------------------------------------------------
(* The events the frontend sends.                                           *)

AllKeys == {"field", "operator", "value", "id"}
NoValueKeys == {"field", "operator", "id"}

it_dept_is_eng == MkItem(AllKeys, PyStr(c_dept), PyStr(s_is), PyStr(v_eng), PyInt(1))
it_dept_is_ops == MkItem(AllKeys, PyStr(c_dept), PyStr(s_is), PyStr(v_ops), PyInt(1))
it_dept_isEmpty == MkItem(NoValueKeys, PyStr(c_dept), PyStr(s_isEmpty), PyNone, PyInt(1))
it_age_gt_30 == MkItem(AllKeys, PyStr(c_age), PyStr(s_gt), PyInt(30), PyInt(2))
it_age_ge_novalue == MkItem(NoValueKeys, PyStr(c_age), PyStr(s_ge), PyNone, PyInt(2))
it_name_is_a == MkItem(AllKeys, PyStr(c_name), PyStr(s_is), PyStr(<< "a" >>), PyInt(3))

UIFilter(items) == MkFilterModel({"items", "logicOperator"}, items, PyStr(s_and))

\* onFilterModelChange payloads: the grid sends one item at a time
FilterEvents ==
    { UIFilter(<< >>), UIFilter(<< it_dept_is_eng >>), UIFilter(<< it_dept_isEmpty >>),
      UIFilter(<< it_age_gt_30 >>), UIFilter(<< it_age_ge_novalue >>) }

\* onSortModelChange payloads
SortEvents ==
    { << >>, << MkSortEntry(PyStr(c_age), PyStr(s_desc)) >>,
      << MkSortEntry(PyStr(c_dept), PyStr(s_asc)) >> }

\* uploaded preset files: one that is not JSON, one without keys, one with both
PresetFiles ==
    { NoPayload,
      [parses |-> TRUE, keys |-> {}, filter_model |-> EmptyDict, sort_model |-> << >>],
      [parses |-> TRUE, keys |-> {"filter_model", "sort_model"},
       filter_model |-> MkFilterModel({"items"}, << it_dept_is_ops >>, PyNone),
       sort_model |-> << MkSortEntry(PyStr(c_age), PyStr(s_desc)) >>] }

\* filter events on a column with few values, one with many, and a number
\* column
ValueOptionFilterEvents ==
    { UIFilter(<< >>), UIFilter(<< it_dept_is_eng >>), UIFilter(<< it_dept_is_ops >>),
      UIFilter(<< it_name_is_a >>), UIFilter(<< it_age_gt_30 >>) }

\* the events of the interleaved schedule (a smaller alphabet)
FilterEventsSmall == { UIFilter(<< >>), UIFilter(<< it_dept_is_eng >>) }
SortEventsSmall == { << MkSortEntry(PyStr(c_age), PyStr(s_desc)) >> }

MaxInFlight == 2     \* handlers suspended at their yield at one time

----------------------------------------------------------------------------
(* One call of merge_filter_model on drawn arguments.                       *)

MaxItems == 2        \* items of a drawn filter model

f_a == << "a" >>
f_b == << "b" >>

MergeItemPool ==
    { MkItem(AllKeys, PyStr(f_a), PyStr(s_equals), PyStr(<< "x" >>), PyInt(1)),
      MkItem(AllKeys, PyStr(f_a), PyStr(s_gt), PyStr(<< "y" >>), PyInt(2)),
      MkItem(AllKeys, PyStr(f_a), PyStr(s_gt), PyNone, PyInt(1)),
      MkItem(NoValueKeys, PyStr(f_a), PyStr(s_isEmpty), PyNone, PyInt(1)),
      MkItem(AllKeys, PyStr(f_b), PyStr(s_gt), PyStr(<< "y" >>), PyInt(3)),
      MkItem({"field"}, PyStr(f_b), PyNone, PyNone, PyNone),
      MkItem({"operator", "value"}, PyNone, PyStr(s_equals), PyStr(<< "x" >>), PyNone) }

ItemLists == UNION { [1..n -> MergeItemPool] : n \in 0..MaxItems }

MergeExisting == { EmptyDict } \cup { UIFilter(items) : items \in ItemLists }

MergeIncoming ==
    { EmptyDict } \cup { MkFilterModel({"items"}, items, PyNone) : items \in ItemLists }
                  \cup { MkFilterModel({"items", "logicOperator"}, items, PyStr(s_or)) :
                         items \in ItemLists }

NoMergeCall == [pc |-> "idle", existing |-> EmptyDict, incoming |-> EmptyDict, result |-> EmptyDict]

MergeReturn ==
    /\ merge_call.pc = "called"
    /\ merge_call' = [merge_call EXCEPT
                        !.pc = "returned",
                        !.result = merge_filter_model(merge_call.existing, merge_call.incoming)]
    /\ UNCHANGED << session_vars, query_call >>

----------------------------------------------------------------------------
(* Code generation (polars_utils.py).  A generated text is the sequence of  *)
(* its lines; a condition is kept as its operator, the field it names and   *)
(* the characters written between the quotes of its string literal, or the  *)
(* number written.  The empty string has no line.                           *)

dq == "\""
sq == "'"
bs == "\\"

NoCode == [op |-> "None", field |-> << >>, lit |-> << >>, num |-> 0]

Code(op, field, lit, num) == [op |-> op, field |-> field, lit |-> lit, num |-> num]

\* str.replace(old, new), old one character
RECURSIVE replace(_, _, _)
replace(chars, old, new) ==
    IF chars = << >> THEN << >>
    ELSE (IF Head(chars) = old THEN new ELSE << Head(chars) >>) \o replace(Tail(chars), old, new)

\* the comparison a numeric operator writes (lines 566-574, 781-789); eq is
\* the text written for "=" and "equals"
numeric_code(operator, eq, field, num_value) ==
    IF num_value = PyNone THEN NoCode
    ELSE IF operator \in {PyStr(s_eq), PyStr(s_equals)} THEN Code(eq, field, << >>, num_value.n)
    ELSE IF operator \in {PyStr(s_ne), PyStr(s_not)} THEN Code("!=", field, << >>, num_value.n)
    ELSE IF operator = PyStr(s_gt) THEN Code(">", field, << >>, num_value.n)
    ELSE IF operator = PyStr(s_ge) THEN Code(">=", field, << >>, num_value.n)
    ELSE IF operator = PyStr(s_lt) THEN Code("<", field, << >>, num_value.n)
    ELSE IF operator = PyStr(s_le) THEN Code("<=", field, << >>, num_value.n)
    ELSE NoCode

\* _filter_item_to_code from ``col = f'pl.col("{field}")'`` on (lines 527-577);
\* str_col is the column cast to pl.String.  No value drawn is a list.
column_filter_code(operator, value, field, dtype) ==
    IF operator = PyStr(s_isEmpty) THEN Code("is_null | str_col ==", field, << >>, 0)
    ELSE IF operator = PyStr(s_isNotEmpty) THEN Code("is_not_null & str_col !=", field, << >>, 0)
    ELSE IF value = PyNone THEN NoCode
    ELSE IF operator = PyStr(s_is) THEN Code("str_col ==", field, py_str(value), 0)
    ELSE IF operator = PyStr(s_not) THEN Code("str_col !=", field, py_str(value), 0)
    ELSE IF operator = PyStr(<< "i", "s", "A", "n", "y", "O", "f" >>) THEN NoCode
    ELSE IF polars_dtype_to_grid_type(dtype) = "string" \/ _is_categorical_dtype(dtype)
    THEN LET escaped == replace(py_str(value), dq, << bs, dq >>)
         IN  IF operator = PyStr(s_contains) THEN Code("str_col.str.contains", field, escaped, 0)
             ELSE IF operator = PyStr(s_equals) THEN Code("str_col ==", field, escaped, 0)
             ELSE IF operator = PyStr(s_startsWith)
             THEN Code("str_col.str.starts_with", field, escaped, 0)
             ELSE IF operator = PyStr(s_endsWith)
             THEN Code("str_col.str.ends_with", field, escaped, 0)
             ELSE NoCode
    ELSE IF polars_dtype_to_grid_type(dtype) = "number"
    THEN numeric_code(operator, "==", field, _coerce_numeric(value))
    ELSE NoCode

\* _filter_item_to_code : the snippet of one filter item, or NoCode (None)
_filter_item_to_code(item, schema) ==
    IF ItemGet(item, "field") = PyNone \/ ItemGet(item, "operator") = PyNone THEN NoCode
    ELSE IF ~field_in_schema(ItemGet(item, "field"), schema) THEN NoCode
    ELSE column_filter_code(ItemGet(item, "operator"), ItemGet(item, "value"),
                            ItemGet(item, "field").s,
                            schema[SchemaIndex(schema, ItemGet(item, "field").s)].dtype)

\* _filter_item_to_sql from ``col = f'"{field}"'`` on (lines 741-793)
column_filter_sql(operator, value, field, dtype) ==
    IF operator = PyStr(s_isEmpty) THEN Code("IS NULL OR CAST =", field, << >>, 0)
    ELSE IF operator = PyStr(s_isNotEmpty) THEN Code("IS NOT NULL AND CAST !=", field, << >>, 0)
    ELSE IF value = PyNone THEN NoCode
    ELSE LET escaped == replace(py_str(value), sq, << sq, sq >>)
         IN  IF operator = PyStr(s_is) THEN Code("CAST =", field, escaped, 0)
             ELSE IF operator = PyStr(s_not) THEN Code("CAST !=", field, escaped, 0)
             ELSE IF operator = PyStr(<< "i", "s", "A", "n", "y", "O", "f" >>) THEN NoCode
             ELSE IF polars_dtype_to_grid_type(dtype) = "string" \/ _is_categorical_dtype(dtype)
             THEN IF operator = PyStr(s_contains)
                  THEN Code("CAST LIKE", field, << "%" >> \o escaped \o << "%" >>, 0)
                  ELSE IF operator = PyStr(s_equals) THEN Code("CAST =", field, escaped, 0)
                  ELSE IF operator = PyStr(s_startsWith)
                  THEN Code("CAST LIKE", field, escaped \o << "%" >>, 0)
                  ELSE IF operator = PyStr(s_endsWith)
                  THEN Code("CAST LIKE", field, << "%" >> \o escaped, 0)
                  ELSE NoCode
             ELSE IF polars_dtype_to_grid_type(dtype) = "number"
             THEN numeric_code(operator, "=", field, _coerce_numeric(value))
             ELSE NoCode

\* _filter_item_to_sql : the condition of one filter item, or NoCode (None)
_filter_item_to_sql(item, schema) ==
    IF ItemGet(item, "field") = PyNone \/ ItemGet(item, "operator") = PyNone THEN NoCode
    ELSE IF ~field_in_schema(ItemGet(item, "field"), schema) THEN NoCode
    ELSE column_filter_sql(ItemGet(item, "operator"), ItemGet(item, "value"),
                           ItemGet(item, "field").s,
                           schema[SchemaIndex(schema, ItemGet(item, "field").s)].dtype)

\* one line of a generated text
TextLine(text) == [kind |-> "text", text |-> text, parts |-> << >>, joiner |-> << >>, keys |-> << >>]

FilterLine(parts, joiner) ==
    [kind |-> "filter", text |-> "", parts |-> parts, joiner |-> joiner, keys |-> << >>]

SortLine(keys) == [kind |-> "sort", text |-> "", parts |-> << >>, joiner |-> << >>, keys |-> keys]

\* by_fields and descending_flags of generate_polars_code (lines 628-636),
\* each flag as it is written, True or False
RECURSIVE code_sort_keys(_)
code_sort_keys(sort_model) ==
    IF sort_model = << >> THEN << >>
    ELSE LET entry == Head(sort_model)
             field == IF "field" \in entry.keys THEN entry.field ELSE PyNone
             direction == IF "sort" \in entry.keys THEN entry.sort ELSE PyStr(s_asc)
         IN  (IF field = PyNone THEN << >>
              ELSE << [by |-> field.s,
                       direction |-> IF direction = PyStr(s_desc) THEN << "T", "r", "u", "e" >>
                                     ELSE << "F", "a", "l", "s", "e" >>] >>)
             \o code_sort_keys(Tail(sort_model))

\* order_parts of generate_sql_where (lines 708-715): "field" DIRECTION
RECURSIVE sql_order_parts(_)
sql_order_parts(sort_model) ==
    IF sort_model = << >> THEN << >>
    ELSE LET entry == Head(sort_model)
             field == IF "field" \in entry.keys THEN entry.field ELSE PyNone
             direction == IF "sort" \in entry.keys THEN entry.sort ELSE PyStr(s_asc)
         IN  (IF field = PyNone THEN << >>
              ELSE << [by |-> field.s, direction |-> Upper(direction.s)] >>)
             \o sql_order_parts(Tail(sort_model))

\* a variant of generate_polars_code that returns the script whatever is active
generate_polars_code_always_script(filter_model, sort_model, schema) ==
    << TextLine("import polars as pl"), TextLine(""),
       TextLine("# Apply the filters and sorts you selected in the grid:"),
       TextLine(""), TextLine("# Collect the result:"), TextLine("df = lf.collect()") >>

\* generate_polars_code(filter_model, sort_model, schema) (lines 581-659)
generate_polars_code(filter_model, sort_model, schema) ==
    LET code_parts ==
            SelectSeq([i \in 1..Len(FilterItems(filter_model)) |->
                          _filter_item_to_code(FilterItems(filter_model)[i], schema)],
                      LAMBDA code : code # NoCode)
        joiner == IF Lower(FilterLogic(filter_model).s) = s_or THEN << "|" >> ELSE << "&" >>
        by_fields == code_sort_keys(sort_model)
        has_filter == code_parts # << >>
        has_sort == by_fields # << >>
    IN  IF ~has_filter /\ ~has_sort THEN << >>
        ELSE << TextLine("import polars as pl"), TextLine(""),
                TextLine("# Apply the filters and sorts you selected in the grid:") >>
             \o (IF has_filter THEN << FilterLine(code_parts, joiner) >> ELSE << >>)
             \o (IF has_sort THEN << SortLine(by_fields) >> ELSE << >>)
             \o << TextLine(""), TextLine("# Collect the result:"), TextLine("df = lf.collect()") >>

\* generate_sql_where(filter_model, sort_model, schema) (lines 662-724), with
\* table_name "df"
generate_sql_where(filter_model, sort_model, schema) ==
    LET sql_conditions ==
            SelectSeq([i \in 1..Len(FilterItems(filter_model)) |->
                          _filter_item_to_sql(FilterItems(filter_model)[i], schema)],
                      LAMBDA sql : sql # NoCode)
        logic == Upper(FilterLogic(filter_model).s)
        order_parts == sql_order_parts(sort_model)
        has_filter == sql_conditions # << >>
        has_sort == order_parts # << >>
    IN  IF ~has_filter /\ ~has_sort THEN << >>
        ELSE << TextLine("SELECT * FROM df") >>
             \o (IF has_filter THEN << FilterLine(sql_conditions, logic) >> ELSE << >>)
             \o (IF has_sort THEN << SortLine(order_parts) >> ELSE << >>)

----------------------------------------------------------------------------
(* One call of the query translation on the table of LF3: apply_filter_model *)
(* on a drawn filter model, or apply_sort_model on a drawn sort model and    *)
(* the collect of its result.                                                *)

s_isAnyOf == << "i", "s", "A", "n", "y", "O", "f" >>
c_DEPT == << "D", "E", "P", "T" >>

QueryItemPool ==
    { it_dept_is_eng, it_age_gt_30, it_age_ge_novalue,
      MkItem(AllKeys, PyStr(c_nope), PyStr(s_is), PyStr(v_eng), PyInt(4)),
      MkItem(AllKeys, PyStr(c_dept), PyStr(s_gt), PyStr(v_eng), PyInt(1)),
      MkItem(AllKeys, PyStr(c_age), PyStr(s_lt), PyStr(<< "a", "b", "c" >>), PyInt(2)),
      MkItem(AllKeys, PyStr(c_dept), PyStr(s_isAnyOf), PyStr(v_eng), PyInt(1)),
      MkItem(AllKeys, PyStr(c_DEPT), PyStr(s_is), PyStr(v_eng), PyInt(1)),
      MkItem(AllKeys, PyStr(c_active), PyStr(s_is), PyBool(TRUE), PyInt(5)),
      MkItem(AllKeys, PyStr(c_active), PyStr(s_is), PyStr(<< "T", "R", "U", "E" >>), PyInt(5)),
      MkItem(AllKeys, PyStr(c_active), PyStr(s_is), PyStr(<< "t", "r", "u", "e" >>), PyInt(5)),
      MkItem(AllKeys, PyStr(c_active), PyStr(s_not), PyStr(<< "f", "a", "l", "s", "e" >>), PyInt(5)),
      MkItem(AllKeys, PyStr(c_active), PyStr(s_is), PyStr(<< "m", "a", "y", "b", "e" >>), PyInt(5)) }

QueryFilterModels ==
    { MkFilterModel({"items"}, items, PyNone) :
        items \in UNION { [1..n -> QueryItemPool] : n \in 0..MaxItems } }
    \cup { MkFilterModel({"items", "logicOperator"}, items, PyStr(logic)) :
             items \in UNION { [1..n -> QueryItemPool] : n \in 0..MaxItems },
             logic \in { s_or, << "O", "R" >> } }

QuerySortPool ==
    { MkSortEntry(PyStr(c_age), PyStr(s_desc)), MkSortEntry(PyStr(c_dept), PyStr(s_asc)),
      MkSortEntry(PyStr(c_nope), PyStr(s_asc)),
      [keys |-> {"sort"}, field |-> PyNone, sort |-> PyStr(s_desc)] }

QuerySortModels == UNION { [1..n -> QuerySortPool] : n \in 0..MaxItems }

NoQueryResult == [raised |-> FALSE, frames |-> {}]

NoQueryCall ==
    [pc |-> "idle", fn |-> "", filter_model |-> EmptyDict, sort_model |-> << >>,
     result |-> NoQueryResult]

apply_filter_model_return ==
    /\ query_call.pc = "called"
    /\ query_call.fn = "apply_filter_model"
    /\ query_call' = [query_call EXCEPT
                        !.pc = "returned",
                        !.result = [raised |-> FALSE,
                                    frames |-> { apply_filter_model(ScanRows(LF3),
                                                                    query_call.filter_model,
                                                                    collect_schema(LF3)) }]]
    /\ UNCHANGED << session_vars, merge_call >>

apply_sort_model_return ==
    /\ query_call.pc = "called"
    /\ query_call.fn = "apply_sort_model"
    /\ query_call' = [query_call EXCEPT
                        !.pc = "returned",
                        !.result = IF sort_column_not_found(query_call.sort_model,
                                                            collect_schema(LF3))
                                   THEN [raised |-> TRUE, frames |-> {}]
                                   ELSE [raised |-> FALSE,
                                         frames |-> apply_sort_model(ScanRows(LF3),
                                                                     query_call.sort_model,
                                                                     collect_schema(LF3))]]
    /\ UNCHANGED << session_vars, merge_call >>

----------------------------------------------------------------------------
(* One call of the code generation on the schema of LF3, on a drawn filter  *)
(* model and a drawn sort model.                                            *)

v_underscore == << "_" >>
v_quoted == << "e", dq, "g" >>

CodeItemPool ==
    { it_dept_is_eng, it_age_gt_30, it_age_ge_novalue,
      MkItem(AllKeys, PyStr(c_name), PyStr(s_contains), PyStr(v_underscore), PyInt(3)),
      MkItem(AllKeys, PyStr(c_dept), PyStr(s_is), PyStr(v_quoted), PyInt(1)) }

CodeFilterModels ==
    { EmptyDict }
    \cup { MkFilterModel({"items"}, items, PyNone) :
             items \in UNION { [1..n -> CodeItemPool] : n \in 0..MaxItems } }
    \cup { MkFilterModel({"items", "logicOperator"}, items, PyStr(s_or)) :
             items \in UNION { [1..n -> CodeItemPool] : n \in 1..MaxItems } }

CodeSortPool ==
    { MkSortEntry(PyStr(c_age), PyStr(s_desc)),
      [keys |-> {"field"}, field |-> PyStr(c_age), sort |-> PyNone],
      [keys |-> {"sort"}, field |-> PyNone, sort |-> PyStr(s_desc)] }

CodeSortModels == UNION { [1..n -> CodeSortPool] : n \in 0..MaxItems }

generate_polars_code_return ==
    /\ query_call.pc = "called"
    /\ query_call.fn = "generate_polars_code"
    /\ query_call' = [query_call EXCEPT
                        !.pc = "returned",
                        !.result = [raised |-> FALSE, frames |-> {},
                                    text |-> generate_polars_code(query_call.filter_model,
                                                                  query_call.sort_model,
                                                                  collect_schema(LF3))]]
    /\ UNCHANGED << session_vars, merge_call >>

generate_sql_where_return ==
    /\ query_call.pc = "called"
    /\ query_call.fn = "generate_sql_where"
    /\ query_call' = [query_call EXCEPT
                        !.pc = "returned",
                        !.result = [raised |-> FALSE, frames |-> {},
                                    text |-> generate_sql_where(query_call.filter_model,
                                                                query_call.sort_model,
                                                                collect_schema(LF3))]]
    /\ UNCHANGED << session_vars, merge_call >>

----------------------------------------------------------------------------
(* Specifications.                                                          *)

SessionInit ==
    /\ lf_grid_rows = << >>
    /\ lf_grid_columns = << >>
    /\ lf_grid_row_count = 0
    /\ lf_grid_loading = FALSE
    /\ lf_grid_loaded = FALSE
    /\ lf_grid_stats = StatsText("", 0)
    /\ lf_grid_selected_info = InfoText("Click a row to see details.", 0, 0, 0)
    /\ lf_grid_filter_debug = InitialFilterDebug
    /\ lf_grid_filter_preset_json = NoPresetJson
    /\ lf_grid_filter_model = UIEmptyFilterModel
    /\ lf_grid_active_filter_fields = << >>
    /\ lf_grid_pagination_model = Pagination(0, _DEFAULT_CHUNK_SIZE)
    /\ _lf_grid_filter = EmptyDict
    /\ _lf_grid_sort = << >>
    /\ _lf_grid_cache_id = ""
    /\ _cache_registry = [ids |-> {}, entry |-> [c \in CacheIds |-> _LazyFrameCache]]
    /\ inflight = << >>
    /\ last_queries = {}
    /\ chunk_log = << >>
    /\ last_step = Step("", "")
    /\ peer = [f \in DOMAIN Self \ {"registry"} |-> Self[f]]
    /\ preset_file = NoPresetFile

Init == SessionInit /\ merge_call = NoMergeCall /\ query_call = NoQueryCall

\* The events of one session are handled one at a time, in arrival order: a
\* handler starts when no other handler of the session is suspended.
on_set_lazyframe ==
    inflight = << >> /\ \E lf \in LazyFrames : set_lazyframe_start(lf, ChunkSize, MaxUnique)

on_filter == inflight = << >> /\ \E fm \in FilterEvents : handle_lf_grid_filter_start(fm)

on_sort == inflight = << >> /\ \E sm \in SortEvents : handle_lf_grid_sort_start(sm)

on_scroll_end == inflight = << >> /\ handle_lf_grid_scroll_end_start

on_clear == inflight = << >> /\ clear_lf_grid_filters_start

on_preset_upload ==
    inflight = << >> /\ \E file \in PresetFiles : handle_lf_grid_preset_upload_start(file)

Next ==
    \/ on_set_lazyframe
    \/ on_filter
    \/ on_sort
    \/ on_scroll_end
    \/ on_clear
    \/ on_preset_upload
    \/ \E i \in 1..Len(inflight) : set_lazyframe_resume(i)
    \/ \E i \in 1..Len(inflight) : handle_lf_grid_filter_resume(i)
    \/ \E i \in 1..Len(inflight) : handle_lf_grid_sort_resume(i)
    \/ \E i \in 1..Len(inflight) : handle_lf_grid_scroll_end_resume(i)
    \/ \E i \in 1..Len(inflight) : clear_lf_grid_filters_resume(i)
    \/ \E i \in 1..Len(inflight) : handle_lf_grid_preset_upload_resume(i)

Spec == Init /\ [][Next]_vars

\* Handlers of one session interleaved at their yield points: a handler may
\* start while others are suspended, and suspended handlers resume in any order.
interleaved_set_lazyframe ==
    inflight = << >> /\ \E lf \in LazyFrames : set_lazyframe_start(lf, ChunkSize, MaxUnique)

interleaved_filter ==
    Len(inflight) < MaxInFlight /\ \E fm \in FilterEventsSmall : handle_lf_grid_filter_start(fm)

interleaved_sort ==
    Len(inflight) < MaxInFlight /\ \E sm \in SortEventsSmall : handle_lf_grid_sort_start(sm)

interleaved_scroll_end == Len(inflight) < MaxInFlight /\ handle_lf_grid_scroll_end_start

interleaved_clear == Len(inflight) < MaxInFlight /\ clear_lf_grid_filters_start

NextInterleaved ==
    \/ interleaved_set_lazyframe
    \/ interleaved_filter
    \/ interleaved_sort
    \/ interleaved_scroll_end
    \/ interleaved_clear
    \/ \E i \in 1..Len(inflight) : set_lazyframe_resume(i)
    \/ \E i \in 1..Len(inflight) : handle_lf_grid_filter_resume(i)
    \/ \E i \in 1..Len(inflight) : handle_lf_grid_sort_resume(i)
    \/ \E i \in 1..Len(inflight) : handle_lf_grid_scroll_end_resume(i)
    \/ \E i \in 1..Len(inflight) : clear_lf_grid_filters_resume(i)

SpecInterleaved == Init /\ [][NextInterleaved]_vars

MergeInit ==
    /\ SessionInit
    /\ merge_call \in { [pc |-> "called", existing |-> e, incoming |-> i, result |-> EmptyDict] :
                        e \in MergeExisting, i \in MergeIncoming }
    /\ query_call = NoQueryCall

MergeNext == MergeReturn

SpecMerge == MergeInit /\ [][MergeNext]_vars

\* One call of apply_filter_model or of apply_sort_model on drawn arguments.
QueryInit ==
    /\ SessionInit
    /\ merge_call = NoMergeCall
    /\ query_call \in
          { [NoQueryCall EXCEPT !.pc = "called", !.fn = "apply_filter_model",
                                !.filter_model = fm] : fm \in QueryFilterModels }
          \cup { [NoQueryCall EXCEPT !.pc = "called", !.fn = "apply_sort_model",
                                     !.sort_model = sm] : sm \in QuerySortModels }

QueryNext == apply_filter_model_return \/ apply_sort_model_return

SpecQuery == QueryInit /\ [][QueryNext]_vars

\* One call of generate_polars_code or of generate_sql_where on drawn arguments.
CodeInit ==
    /\ SessionInit
    /\ merge_call = NoMergeCall
    /\ query_call \in
          { [NoQueryCall EXCEPT !.pc = "called", !.fn = fn, !.filter_model = fm,
                                !.sort_model = sm] :
              fn \in {"generate_polars_code", "generate_sql_where"},
              fm \in CodeFilterModels, sm \in CodeSortModels }

CodeNext == generate_polars_code_return \/ generate_sql_where_return

SpecCodegen == CodeInit /\ [][CodeNext]_vars

\* One session whose filter events name every column, between initializations.
on_value_option_filter ==
    inflight = << >> /\ \E fm \in ValueOptionFilterEvents : handle_lf_grid_filter_start(fm)

on_set_typed_lazyframe ==
    inflight = << >> /\ set_lazyframe_start(LF3, ChunkSize, MaxUnique)

NextValueOptions ==
    \/ on_set_lazyframe
    \/ on_set_typed_lazyframe
    \/ on_value_option_filter
    \/ \E i \in 1..Len(inflight) : set_lazyframe_resume(i)
    \/ \E i \in 1..Len(inflight) : handle_lf_grid_filter_resume(i)

SpecValueOptions == Init /\ [][NextValueOptions]_vars

\* One session with presets: files written by hand (two criteria on one
\* field; a criterion without a field), the file the session downloaded, and
\* a filter event that carries two criteria on one field.
it_nofield == MkItem({"operator", "value", "id"}, PyNone, PyStr(s_is), PyStr(v_eng), PyInt(7))

HandWrittenPresetFiles ==
    { [parses |-> TRUE, keys |-> {"filter_model", "sort_model"},
       filter_model |-> MkFilterModel({"items", "logicOperator"},
                                      << it_dept_is_eng, it_dept_is_ops >>, PyStr(s_or)),
       sort_model |-> << >>],
      [parses |-> TRUE, keys |-> {"filter_model", "sort_model"},
       filter_model |-> MkFilterModel({"items"}, << it_nofield, it_age_gt_30 >>, PyNone),
       sort_model |-> << MkSortEntry(PyStr(c_dept), PyStr(s_asc)) >>],
      [parses |-> TRUE, keys |-> {"filter_model", "sort_model"},
       filter_model |-> MkFilterModel({"items", "logicOperator"}, << it_name_is_a >>,
                                      PyStr(s_and)),
       sort_model |-> << MkSortEntry(PyStr(c_nope), PyStr(s_asc)) >>] }

PresetFilterEvents ==
    { UIFilter(<< >>), UIFilter(<< it_age_gt_30 >>), UIFilter(<< it_dept_is_ops, it_dept_is_eng >>) }

on_preset_filter ==
    inflight = << >> /\ \E fm \in PresetFilterEvents : handle_lf_grid_filter_start(fm)

on_preset_sort ==
    inflight = << >> /\ \E sm \in SortEventsSmall : handle_lf_grid_sort_start(sm)

on_hand_written_preset_upload ==
    inflight = << >> /\ \E file \in HandWrittenPresetFiles : handle_lf_grid_preset_upload_start(file)

NextPresets ==
    \/ on_set_lazyframe
    \/ on_preset_filter
    \/ on_preset_sort
    \/ on_scroll_end
    \/ on_clear
    \/ on_hand_written_preset_upload
    \/ \E i \in 1..Len(inflight) : set_lazyframe_resume(i)
    \/ \E i \in 1..Len(inflight) : handle_lf_grid_filter_resume(i)
    \/ \E i \in 1..Len(inflight) : handle_lf_grid_sort_resume(i)
    \/ \E i \in 1..Len(inflight) : handle_lf_grid_scroll_end_resume(i)
    \/ \E i \in 1..Len(inflight) : clear_lf_grid_filters_resume(i)
    \/ \E i \in 1..Len(inflight) : handle_lf_grid_preset_upload_resume(i)

SpecPresets == Init /\ [][NextPresets]_vars

\* One session whose preset is downloaded and uploaded again, in the same
\* session or after another set_lazyframe on the same handle.
on_download_filter ==
    inflight = << >> /\ \E fm \in FilterEventsSmall : handle_lf_grid_filter_start(fm)

on_download == inflight = << >> /\ download_lf_grid_preset

on_downloaded_preset_upload ==
    /\ inflight = << >>
    /\ preset_file.saved
    /\ handle_lf_grid_preset_upload_start(json_loads(preset_file.data))

NextDownload ==
    \/ on_set_lazyframe
    \/ on_download_filter
    \/ on_preset_sort
    \/ on_download
    \/ on_downloaded_preset_upload
    \/ \E i \in 1..Len(inflight) : set_lazyframe_resume(i)
    \/ \E i \in 1..Len(inflight) : handle_lf_grid_filter_resume(i)
    \/ \E i \in 1..Len(inflight) : handle_lf_grid_sort_resume(i)
    \/ \E i \in 1..Len(inflight) : handle_lf_grid_preset_upload_resume(i)

SpecDownload == Init /\ [][NextDownload]_vars

\* Two sessions of the same state class: the events of the first are handled
\* one at a time, and between them the peer's handlers run.
on_peer_set_lazyframe ==
    inflight = << >> /\ \E lf \in LazyFrames \cup {LF2} : peer_set_lazyframe(lf, ChunkSize, MaxUnique)

on_peer_filter ==
    inflight = << >> /\ \E fm \in FilterEventsSmall : peer_handle_lf_grid_filter(fm)

NextSessions ==
    \/ on_set_lazyframe
    \/ on_filter
    \/ on_scroll_end
    \/ \E i \in 1..Len(inflight) : set_lazyframe_resume(i)
    \/ \E i \in 1..Len(inflight) : handle_lf_grid_filter_resume(i)
    \/ \E i \in 1..Len(inflight) : handle_lf_grid_scroll_end_resume(i)
    \/ on_peer_set_lazyframe
    \/ on_peer_filter

SpecSessions == Init /\ [][NextSessions]_vars

----------------------------------------------------------------------------
(* Vocabulary of the properties: the criteria of a filter model by field,   *)
(* and what a criterion asks of a row in the grid's filter grammar.         *)

\* the criteria of a filter model on one field, in order
CriteriaOn(fm, field) == SelectSeq(FilterItems(fm), LAMBDA it : it.field = field)

HasCriterionOn(fm, field) == CriteriaOn(fm, field) # << >>

\* the accumulated criterion of a field: the per-field map holds one criterion
\* per field, the last of the model on that field
CriterionOn(fm, field) == CriteriaOn(fm, field)[Len(CriteriaOn(fm, field))]

\* the fields a filter model names
FieldsOf(fm) ==
    { FilterItems(fm)[i].field : i \in { j \in 1..Len(FilterItems(fm)) :
                                          Truthy(FilterItems(fm)[j].field) } }

\* "has a value": the value is not null, or the operator is isEmpty / isNotEmpty
CriterionHasValue(it) ==
    it.value # PyNone \/ it.operator \in {PyStr(s_isEmpty), PyStr(s_isNotEmpty)}

\* the incoming criteria that name a field no other incoming criterion names
SoleIncoming(incoming) ==
    { FilterItems(incoming)[j] : j \in { k \in 1..Len(FilterItems(incoming)) :
        /\ Truthy(FilterItems(incoming)[k].field)
        /\ Len(CriteriaOn(incoming, FilterItems(incoming)[k].field)) = 1 } }

Returned == merge_call.pc = "returned"

\* what a criterion asks of a row of the table
Meets(row, it) ==
    LET cell == row[SchemaIndex(collect_schema(LF1), it.field.s)]
    IN  CASE it.operator = PyStr(s_is) -> cell # PyNone /\ py_str(cell) = py_str(it.value)
          [] it.operator = PyStr(s_isEmpty) -> cell = PyNone \/ cell = PyStr(<< >>)
          [] it.operator = PyStr(s_gt) -> cell # PyNone /\ cell.n > it.value.n
          [] it.operator = PyStr(s_ge) -> cell # PyNone /\ cell.n >= it.value.n

MeetsAll(row, fm) == \A i \in 1..Len(FilterItems(fm)) : Meets(row, FilterItems(fm)[i])

\* the rows of the table that meet every criterion of a filter model, in order
Matching(fm) == SelectSeq(ScanRows(LF1), LAMBDA row : MeetsAll(row, fm))

----------------------------------------------------------------------------
(* C1 - filter accumulation across events (Spec).                           *)

\* a filter handler runs to its end; its event carries one criterion with a
\* non-null value on a field the accumulated filter does not name
C1_NewFieldEventCompletes ==
    /\ inflight # << >> /\ inflight[1].h = "filter" /\ inflight' = << >>
    /\ lf_grid_loaded
    /\ Len(FilterItems(inflight[1].fm)) = 1
    /\ FilterItems(inflight[1].fm)[1].value # PyNone
    /\ Truthy(FilterItems(inflight[1].fm)[1].field)
    /\ ~HasCriterionOn(_lf_grid_filter, FilterItems(inflight[1].fm)[1].field)

\* C1: a completed filter-change event that carries one criterion with a
\* non-null value on a field not sent before leaves every accumulated criterion
\* unchanged and adds exactly the new one, so that after any sequence of such
\* events the accumulated filter holds one criterion per field sent; and the
\* refreshed row_count and rows are those of the rows meeting all the
\* accumulated criteria together.
C1_FilterAccumulates ==
    [][ C1_NewFieldEventCompletes =>
          /\ FilterItems(_lf_grid_filter') =
                 FilterItems(_lf_grid_filter) \o FilterItems(inflight[1].fm)
          /\ lf_grid_row_count' = Len(Matching(_lf_grid_filter'))
          /\ Len(lf_grid_rows') =
                 (IF lf_grid_row_count' < lf_grid_pagination_model'.pageSize
                  THEN lf_grid_row_count' ELSE lf_grid_pagination_model'.pageSize)
          /\ \A i \in 1..Len(lf_grid_rows') : MeetsAll(lf_grid_rows'[i].cells, _lf_grid_filter')
          /\ _lf_grid_sort = << >> =>
                 \A i \in 1..Len(lf_grid_rows') :
                     lf_grid_rows'[i].cells = Matching(_lf_grid_filter')[i] ]_vars

\* two criteria accumulated by two events, and fewer rows than the last
\* criterion alone would keep
C1_Witness ==
    /\ last_step = Step("filter", "done")
    /\ lf_grid_loaded
    /\ Len(FilterItems(_lf_grid_filter)) = 2
    /\ Cardinality(FieldsOf(_lf_grid_filter)) = 2
    /\ Len(FilterItems(lf_grid_filter_model)) = 1
    /\ FilterItems(lf_grid_filter_model)[1].value # PyNone
    /\ FilterItems(_lf_grid_filter)[2] = FilterItems(lf_grid_filter_model)[1]
    /\ lf_grid_row_count = Len(Matching(_lf_grid_filter))
    /\ lf_grid_row_count < Len(Matching(lf_grid_filter_model))
    /\ Len(lf_grid_rows) = lf_grid_row_count

----------------------------------------------------------------------------
(* C2..C6 - merge_filter_model, over one call on drawn arguments            *)
(* (SpecMerge).                                                             *)

\* C2: merge returns the empty filter model whenever the incoming model's
\* items are empty or absent, for every accumulated model.
C2_EmptyIncomingClears ==
    (Returned /\ FilterItems(merge_call.incoming) = << >>) => merge_call.result = EmptyDict

\* an accumulated model with criteria, cleared by an incoming model without items
C2_Witness ==
    /\ Returned
    /\ "items" \in merge_call.incoming.keys
    /\ merge_call.incoming.items = << >>
    /\ FieldsOf(merge_call.existing) # {}
    /\ merge_call.result = EmptyDict

\* C3: an incoming criterion without a value (value null, operator neither
\* isEmpty nor isNotEmpty) whose field has an accumulated criterion with the
\* same operator leaves that criterion as it was: the result holds it
\* unchanged, and nothing else on that field.
C3_SameOperatorKeepsCriterion ==
    Returned =>
        \A it \in SoleIncoming(merge_call.incoming) :
            ( /\ ~CriterionHasValue(it)
              /\ HasCriterionOn(merge_call.existing, it.field)
              /\ CriterionOn(merge_call.existing, it.field).operator = it.operator )
            => CriteriaOn(merge_call.result, it.field)
                   = << CriterionOn(merge_call.existing, it.field) >>

\* a criterion with a value, met by an incoming criterion of the same field
\* and operator without a value
C3_Witness ==
    /\ Returned
    /\ \E it \in SoleIncoming(merge_call.incoming) :
          /\ ~CriterionHasValue(it)
          /\ Truthy(it.operator)
          /\ HasCriterionOn(merge_call.existing, it.field)
          /\ CriterionOn(merge_call.existing, it.field).operator = it.operator
          /\ CriterionOn(merge_call.existing, it.field).value # PyNone
          /\ CriteriaOn(merge_call.result, it.field)
                 = << CriterionOn(merge_call.existing, it.field) >>

C5_ValuedCriterionIsUpserted ==
    Returned =>
        /\ \A it \in SoleIncoming(merge_call.incoming) :
              CriterionHasValue(it) => CriteriaOn(merge_call.result, it.field) = << it >>
        /\ (\E it \in SoleIncoming(merge_call.incoming) : CriterionHasValue(it)) =>
              \A g \in FieldsOf(merge_call.existing) \ FieldsOf(merge_call.incoming) :
                  CriteriaOn(merge_call.result, g) = << CriterionOn(merge_call.existing, g) >>

\* an incoming criterion with a value replaces the criterion of its field,
\* which differed, next to a criterion of another field, which stays
C5_Witness ==
    /\ Returned
    /\ \E it \in SoleIncoming(merge_call.incoming) :
          /\ CriterionHasValue(it)
          /\ HasCriterionOn(merge_call.existing, it.field)
          /\ CriterionOn(merge_call.existing, it.field) # it
          /\ CriteriaOn(merge_call.result, it.field) = << it >>
          /\ \E g \in FieldsOf(merge_call.existing) \ FieldsOf(merge_call.incoming) :
                 CriteriaOn(merge_call.result, g) = << CriterionOn(merge_call.existing, g) >>

\* C6: incoming criteria without a value on a field that has no accumulated
\* criterion add nothing on that field; and when no field is left with a
\* criterion the result is the empty filter model, never a model with an
\* empty list of items.
C6_ValuelessOnNewFieldIgnored ==
    Returned =>
        /\ \A f \in FieldsOf(merge_call.incoming) :
              ( /\ ~HasCriterionOn(merge_call.existing, f)
                /\ \A i \in 1..Len(CriteriaOn(merge_call.incoming, f)) :
                      ~CriterionHasValue(CriteriaOn(merge_call.incoming, f)[i]) )
              => ~HasCriterionOn(merge_call.result, f)
        /\ ( /\ FieldsOf(merge_call.existing) = {}
             /\ \A i \in 1..Len(FilterItems(merge_call.incoming)) :
                   \/ ~Truthy(FilterItems(merge_call.incoming)[i].field)
                   \/ ~CriterionHasValue(FilterItems(merge_call.incoming)[i]) )
           => merge_call.result = EmptyDict
        /\ merge_call.result # EmptyDict => FilterItems(merge_call.result) # << >>

\* a criterion without a value on a new field, with nothing accumulated: the
\* result is the empty filter model
C6_Witness ==
    /\ Returned
    /\ FieldsOf(merge_call.existing) = {}
    /\ \E it \in SoleIncoming(merge_call.incoming) :
          ~CriterionHasValue(it) /\ Truthy(it.operator)
    /\ merge_call.result = EmptyDict

----------------------------------------------------------------------------
(* C7 - chunk loads under interleaving (SpecInterleaved).                   *)

\* the scroll handlers suspended at their yield: the chunk loads in flight
ChunkLoadsInFlight == { i \in 1..Len(inflight) : inflight[i].h = "scroll" }

\* C7: for every interleaving of the scroll, filter, sort and clear handlers
\* at their yield points, at most one chunk load is in flight at any time and
\* no chunk offset is loaded twice into the row buffer.
C7_OneChunkLoadAtATime ==
    /\ Cardinality(ChunkLoadsInFlight) <= 1
    /\ \A i, j \in 1..Len(chunk_log) : chunk_log[i] = chunk_log[j] => i = j

----------------------------------------------------------------------------
(* C8, C9 - the early returns of handle_lf_grid_scroll_end (Spec).          *)

\* C8: a scroll-near-end event handled while loading is true changes neither
\* the row buffer, the pagination window, row_count, the stats string nor the
\* loading flag, suspends no handler and executes no query.
C8_ScrollWhileLoadingIsNoOp ==
    [][ (handle_lf_grid_scroll_end_start /\ lf_grid_loading) =>
          /\ UNCHANGED << lf_grid_rows, lf_grid_pagination_model, lf_grid_row_count,
                          lf_grid_stats, lf_grid_loading, inflight >>
          /\ last_queries' = {} ]_vars

\* a scroll-near-end event has returned early and loading is true
C8_Witness ==
    /\ last_step = Step("scroll", "return")
    /\ lf_grid_loading
    /\ lf_grid_loaded
    /\ (lf_grid_pagination_model.page + 1) * lf_grid_pagination_model.pageSize
           < lf_grid_row_count

\* C9: a scroll-near-end event handled when (page + 1) * page_size >= row_count
\* leaves the row buffer and the page unchanged, does not set loading,
\* suspends no handler and executes no query.
C9_ScrollAtEndIsNoOp ==
    [][ ( /\ handle_lf_grid_scroll_end_start
          /\ (lf_grid_pagination_model.page + 1) * lf_grid_pagination_model.pageSize
                 >= lf_grid_row_count ) =>
          /\ UNCHANGED << lf_grid_rows, lf_grid_pagination_model, lf_grid_row_count,
                          lf_grid_loading, inflight >>
          /\ last_queries' = {} ]_vars

\* every chunk is loaded, and a further scroll-near-end event has returned
\* early without loading
C9_Witness ==
    /\ last_step = Step("scroll", "return")
    /\ ~lf_grid_loading
    /\ lf_grid_loaded
    /\ lf_grid_pagination_model.page > 0
    /\ Len(lf_grid_rows) = lf_grid_row_count
    /\ (lf_grid_pagination_model.page + 1) * lf_grid_pagination_model.pageSize
           >= lf_grid_row_count

----------------------------------------------------------------------------
(* C10 - row ids of the buffer (Spec).                                      *)

----------------------------------------------------------------------------
(* C11 - the offset of the pagination window (Spec).                        *)

----------------------------------------------------------------------------
(* C12 - scrolling to the end of the data (Spec).                           *)

\* no handler is in progress and the next offset is at or beyond row_count:
\* every further scroll-near-end event returns early
AtEndOfData ==
    /\ inflight = << >>
    /\ lf_grid_loaded
    /\ ~lf_grid_loading
    /\ (lf_grid_pagination_model.page + 1) * lf_grid_pagination_model.pageSize
           >= lf_grid_row_count

\* C12: when scroll-near-end events, each handled after the previous load
\* completed, have brought the window to the end of the data, the row buffer
\* holds exactly the row_count rows of the filtered and sorted result: ids
\* 0..N-1, no row twice, no row missing.
C12_ScrollLoadsEveryRowOnce ==
    AtEndOfData =>
        /\ Len(lf_grid_rows) = lf_grid_row_count
        /\ \A i \in 1..Len(lf_grid_rows) : lf_grid_rows[i].row_id = i - 1
        /\ \A i, j \in 1..Len(lf_grid_rows) :
              lf_grid_rows[i].cells = lf_grid_rows[j].cells => i = j
        /\ { lf_grid_rows[i].cells : i \in 1..Len(lf_grid_rows) }
               = { Matching(_lf_grid_filter)[k] : k \in 1..Len(Matching(_lf_grid_filter)) }

----------------------------------------------------------------------------
(* C13 - the loading state is shown before any query runs (Spec).           *)

\* C13: in each handler that runs a query (set_lazyframe, filter, sort,
\* scroll-load, clear, preset upload) the step that suspends the handler at
\* its yield sets loading = TRUE, runs no query and leaves rows, row_count,
\* the pagination window and the accumulated filter and sort as they were
\* before the event; a query (row count, page slice, distinct values) runs
\* only in the step that resumes a suspended handler, after the loading
\* state was shown.
C13_LoadingShownBeforeQueries ==
    [][ /\ Len(inflight') > Len(inflight) =>
              /\ lf_grid_loading'
              /\ last_step'.at = "yield"
              /\ last_queries' = {}
              /\ UNCHANGED << lf_grid_rows, lf_grid_row_count, lf_grid_pagination_model,
                              _lf_grid_filter, _lf_grid_sort >>
        /\ last_queries' # {} =>
              /\ Len(inflight') < Len(inflight)
              /\ lf_grid_loading
              /\ last_step.at = "yield" ]_vars

\* a sort handler is suspended at its yield on a loaded, filtered session:
\* loading is shown and the rows of the previous page are still there
C13_Witness ==
    /\ last_step = Step("sort", "yield")
    /\ Len(inflight) = 1
    /\ lf_grid_loading
    /\ lf_grid_loaded
    /\ lf_grid_rows # << >>
    /\ FilterItems(_lf_grid_filter) # << >>

----------------------------------------------------------------------------
(* C14 - a handler that ends leaves loading = FALSE (Spec).                 *)

\* C14: every handler invocation that set loading = TRUE ends with
\* loading = FALSE on every path, the failing ones included: when no handler
\* is suspended and the last handler ran to its end or was left by an
\* exception, loading is FALSE.
C14_LoadingClearedOnEveryPath ==
    (inflight = << >> /\ last_step.at \in {"done", "raised"}) => ~lf_grid_loading

----------------------------------------------------------------------------
(* C15 - sessions are independent (SpecSessions).                           *)

\* C15: distinct sessions are independent: a handler of the peer session
\* (its set_lazyframe with another handle included) changes neither the
\* handle, the schema, the column descriptors or the value-options cache of
\* the cache entry this session's handlers use, nor this session's rows and
\* row_count.
C15_SessionsIndependent ==
    [][ peer' # peer =>
          /\ UNCHANGED << lf_grid_rows, lf_grid_row_count >>
          /\ _lf_grid_cache_id # "" =>
                /\ _cache_registry'.entry[_lf_grid_cache_id].lf
                      = _cache_registry.entry[_lf_grid_cache_id].lf
                /\ _cache_registry'.entry[_lf_grid_cache_id].schema
                      = _cache_registry.entry[_lf_grid_cache_id].schema
                /\ _cache_registry'.entry[_lf_grid_cache_id].col_defs
                      = _cache_registry.entry[_lf_grid_cache_id].col_defs
                /\ _cache_registry'.entry[_lf_grid_cache_id]._value_options_cache
                      = _cache_registry.entry[_lf_grid_cache_id]._value_options_cache ]_vars

----------------------------------------------------------------------------
(* C16 - set_lazyframe replaces the prior state of the session (Spec).      *)

\* C16: whatever events preceded it, the state after a completed
\* set_lazyframe is that of a first initialization: accumulated filter and
\* sort empty, UI filter model empty, active filter fields empty, page 0,
\* rows the first chunk of the handle, value-options cache empty, and the
\* filter/sort debug summary and the preset JSON describing no active filter
\* or sort.
C16_SetLazyframeResetsSession ==
    last_step = Step("set_lazyframe", "done") =>
        /\ _lf_grid_filter = EmptyDict
        /\ _lf_grid_sort = << >>
        /\ lf_grid_filter_model = UIEmptyFilterModel
        /\ lf_grid_active_filter_fields = << >>
        /\ lf_grid_pagination_model.page = 0
        /\ lf_grid_rows = _dataframe_to_dicts(
                              Slice(ScanRows(LF1), 0, lf_grid_pagination_model.pageSize), 0)
        /\ _cache_registry.entry[_lf_grid_cache_id]._value_options_cache = << >>
        /\ lf_grid_filter_debug.filters = << >>
        /\ lf_grid_filter_debug.sorts = << >>
        /\ lf_grid_filter_preset_json = NoPresetJson

----------------------------------------------------------------------------
(* C17 - value options right after set_lazyframe (Spec).                    *)

\* the distinct non-null values of column i of the table behind LF1
DistinctOf(i) ==
    { ScanRows(LF1)[r][i].s : r \in { q \in 1..Len(ScanRows(LF1)) : ScanRows(LF1)[q][i] # PyNone } }

\* C17: after set_lazyframe on a small dataset, every string column with at
\* most value_options_max_unique distinct values has a singleSelect
\* descriptor that carries its distinct values in sorted order, before any
\* filter event.
C17_SmallDatasetHasValueOptions ==
    last_step = Step("set_lazyframe", "done") =>
        \A i \in 1..Len(lf_grid_columns) :
            ( /\ collect_schema(LF1)[i].dtype = "String"
              /\ DistinctOf(i) # {}
              /\ Cardinality(DistinctOf(i))
                    <= _cache_registry.entry[_lf_grid_cache_id].value_options_max_unique )
            => /\ lf_grid_columns[i].type = "singleSelect"
               /\ lf_grid_columns[i].valueOptions.has
               /\ { lf_grid_columns[i].valueOptions.vals[j] :
                      j \in 1..Len(lf_grid_columns[i].valueOptions.vals) } = DistinctOf(i)
               /\ \A j \in 1..(Len(lf_grid_columns[i].valueOptions.vals) - 1) :
                      CharsLess(lf_grid_columns[i].valueOptions.vals[j],
                                lf_grid_columns[i].valueOptions.vals[j + 1])

----------------------------------------------------------------------------
(* C18 - a replacing refresh shows the first page (Spec).                   *)

\* row a comes strictly before row b in the accumulated sort
SortsBefore(a, b) == RowBefore(a, b, sort_keys(_lf_grid_sort), collect_schema(LF1))

\* the rows of the table that satisfy the accumulated filter, as a set
MatchingSet == { Matching(_lf_grid_filter)[k] : k \in 1..Len(Matching(_lf_grid_filter)) }

\* C18: after a completed filter, sort, clear or preset-upload handler the
\* page is 0 and the buffer is exactly the first min(page_size, row_count)
\* rows of the current filtered and sorted result, with ids from 0: every
\* buffered row satisfies the filter, no row is there twice, the buffer is
\* in sort order, no row left out sorts before a buffered one, and without a
\* sort the buffer is the head of the filtered table in table order.
C18_ReplacingRefreshShowsFirstPage ==
    (last_step.at = "done" /\ last_step.h \in {"filter", "sort", "clear", "preset"}) =>
        /\ lf_grid_pagination_model.page = 0
        /\ Len(lf_grid_rows) = IF lf_grid_pagination_model.pageSize < lf_grid_row_count
                               THEN lf_grid_pagination_model.pageSize
                               ELSE lf_grid_row_count
        /\ \A i \in 1..Len(lf_grid_rows) :
              /\ lf_grid_rows[i].row_id = i - 1
              /\ lf_grid_rows[i].cells \in MatchingSet
              /\ \A j \in 1..Len(lf_grid_rows) :
                    /\ lf_grid_rows[i].cells = lf_grid_rows[j].cells => i = j
                    /\ i < j => ~SortsBefore(lf_grid_rows[j].cells, lf_grid_rows[i].cells)
              /\ \A m \in MatchingSet :
                    SortsBefore(m, lf_grid_rows[i].cells)
                        => \E j \in 1..Len(lf_grid_rows) : lf_grid_rows[j].cells = m
        /\ _lf_grid_sort = << >> =>
              \A i \in 1..Len(lf_grid_rows) :
                  lf_grid_rows[i].cells = Matching(_lf_grid_filter)[i]

\* a sort handler completed on a filtered session after the buffer had
\* grown by a scroll: the buffer is back to one page of a longer result
C18_Witness ==
    /\ last_step = Step("sort", "done")
    /\ _lf_grid_sort # << >>
    /\ FilterItems(_lf_grid_filter) # << >>
    /\ lf_grid_pagination_model.page = 0
    /\ Len(lf_grid_rows) = lf_grid_pagination_model.pageSize
    /\ Len(lf_grid_rows) < lf_grid_row_count

----------------------------------------------------------------------------
(* C19 - the row count (Spec).                                              *)

\* C19: a step that completes set_lazyframe, a filter, sort, clear or
\* preset-upload handler on an initialized session leaves row_count equal to
\* the number of rows of the handle that satisfy the accumulated filter,
\* whatever the sort model and the page; no step of the scroll handler runs
\* a count query or changes row_count.
C19_RowCountIsFilteredCount ==
    [][ /\ ( /\ last_step'.at = "done"
              /\ last_step'.h \in {"set_lazyframe", "filter", "sort", "clear", "preset"}
              /\ _lf_grid_cache_id' # "" )
            => lf_grid_row_count' = Len(Matching(_lf_grid_filter'))
        /\ last_step'.h = "scroll"
            => (lf_grid_row_count' = lf_grid_row_count /\ "count" \notin last_queries') ]_vars

\* a sort handler completed on a filtered session: the count is that of the
\* filtered rows, more than one page and less than the table
C19_Witness ==
    /\ last_step = Step("sort", "done")
    /\ _lf_grid_sort # << >>
    /\ FilterItems(_lf_grid_filter) # << >>
    /\ "count" \in last_queries
    /\ lf_grid_row_count = Len(Matching(_lf_grid_filter))
    /\ lf_grid_row_count > Len(lf_grid_rows)
    /\ lf_grid_row_count < Len(ScanRows(LF1))

----------------------------------------------------------------------------
(* C20 - a sort-change event (Spec).                                        *)

----------------------------------------------------------------------------
(* C21 - clearing the filters (Spec).                                       *)

\* C21: after clear_lf_grid_filters has completed, whatever filters were
\* accumulated before, the accumulated filter is empty, the UI filter model
\* is {items: []}, the page is 0 and, on an initialized session, row_count
\* is the number of rows of the handle.
C21_ClearResetsFilters ==
    last_step = Step("clear", "done") =>
        /\ _lf_grid_filter = EmptyDict
        /\ lf_grid_filter_model = UIEmptyFilterModel
        /\ lf_grid_active_filter_fields = << >>
        /\ lf_grid_pagination_model.page = 0
        /\ _lf_grid_cache_id # "" => lf_grid_row_count = Len(ScanRows(LF1))

\* clear completed on a session where a filter on dept had been applied (its
\* column got value options then) and a sort is still active
C21_Witness ==
    /\ last_step = Step("clear", "done")
    /\ lf_grid_loaded
    /\ lf_grid_columns[1].valueOptions.has
    /\ _lf_grid_sort # << >>
    /\ _lf_grid_filter = EmptyDict
    /\ lf_grid_row_count = Len(ScanRows(LF1))

----------------------------------------------------------------------------
(* C22 - uploading a preset (Spec).                                         *)

\* the preset handler resumed by this step read a JSON object with both keys
PresetApplied ==
    /\ Len(inflight') < Len(inflight)
    /\ inflight[1].h = "preset"
    /\ inflight[1].payload.parses
    /\ inflight[1].payload.keys = {"filter_model", "sort_model"}

----------------------------------------------------------------------------
(* C23 - presets that are malformed or lack a key (Spec).                   *)

\* the part of an uploaded payload under one key, empty when the payload is
\* not JSON or lacks the key
ReadableFilter(payload) ==
    IF payload.parses /\ "filter_model" \in payload.keys THEN payload.filter_model ELSE EmptyDict

ReadableSort(payload) ==
    IF payload.parses /\ "sort_model" \in payload.keys THEN payload.sort_model ELSE << >>

\* C23: the step that resumes a preset upload completes the handler
\* normally whatever the payload: a payload that is not JSON, or lacks the
\* filter_model or the sort_model key, gives an empty filter or sort for the
\* missing part, the page is refreshed from page 0 and loading is cleared.
C23_PresetToleratesBadPayload ==
    [][ ( /\ Len(inflight') < Len(inflight)
          /\ inflight[1].h = "preset" )
        => /\ last_step' = Step("preset", "done")
           /\ ~lf_grid_loading'
           /\ _lf_grid_filter' = ReadableFilter(inflight[1].payload)
           /\ _lf_grid_sort' = ReadableSort(inflight[1].payload)
           /\ lf_grid_pagination_model'.page = 0
           /\ _lf_grid_cache_id # "" => {"count", "slice"} \subseteq last_queries' ]_vars

----------------------------------------------------------------------------
(* C24 - one scan per column between initializations (SpecValueOptions).    *)

\* the value-options cache of the session's cache entry
CachedOptions == _cache_registry.entry[_lf_grid_cache_id]._value_options_cache

----------------------------------------------------------------------------
(* C25 - singleSelect descriptors carry their choices (SpecValueOptions).   *)

\* C25: every column descriptor of the session whose type is singleSelect
\* has a choice list, in every reachable state: after the schema-only
\* inference of set_lazyframe (Categorical and Enum columns included) and
\* after on-demand inference.
C25_SingleSelectHasChoices ==
    \A i \in 1..Len(lf_grid_columns) :
        lf_grid_columns[i].type = "singleSelect" => lf_grid_columns[i].valueOptions.has

----------------------------------------------------------------------------
(* Vocabulary of the properties of the query translation: the call that     *)
(* returned, and which criteria the filter grammar cannot translate.        *)

FilterCallReturned == query_call.pc = "returned" /\ query_call.fn = "apply_filter_model"

SortCallReturned == query_call.pc = "returned" /\ query_call.fn = "apply_sort_model"

\* the rows of the frame a call that did not raise returned
QueryFrame == CHOOSE f \in query_call.result.frames : TRUE

\* the columns whose name is the field, or differs from it only in letter case
ColumnsNamed(field) ==
    { i \in 1..Len(collect_schema(LF3)) :
        field.k = "str" /\ Lower(collect_schema(LF3)[i].name) = Lower(field.s) }

GridTypeOf(field) ==
    LET dtype == collect_schema(LF3)[CHOOSE i \in ColumnsNamed(field) : TRUE].dtype
    IN  IF dtype \in {"Int64", "Float64"} THEN "number"
        ELSE IF dtype = "Boolean" THEN "boolean"
        ELSE "string"

OperatorsOf(grid_type) ==
    { PyStr(s_isEmpty), PyStr(s_isNotEmpty), PyStr(s_is), PyStr(s_not), PyStr(s_isAnyOf) }
    \cup (IF grid_type = "string"
          THEN { PyStr(s_contains), PyStr(s_equals), PyStr(s_startsWith), PyStr(s_endsWith) }
          ELSE IF grid_type = "number"
          THEN { PyStr(s_eq), PyStr(s_ne), PyStr(s_gt), PyStr(s_ge), PyStr(s_lt), PyStr(s_le),
                 PyStr(s_equals) }
          ELSE {})

IsNumber(v) == v.k \in {"int", "bool"} \/ (v.k = "str" /\ AllDigits(Strip(v.s)))

\* a criterion that cannot be translated: its field is no column, its
\* operator is unknown for the column's type, it lacks the value its operator
\* needs, it compares a number column with a value that is no number, or it
\* is an isAnyOf whose value is no list (no value drawn is a list)
Untranslatable(it) ==
    \/ ColumnsNamed(it.field) = {}
    \/ it.operator \notin OperatorsOf(GridTypeOf(it.field))
    \/ it.operator \notin {PyStr(s_isEmpty), PyStr(s_isNotEmpty)} /\ it.value = PyNone
    \/ it.operator = PyStr(s_isAnyOf)
    \/ /\ GridTypeOf(it.field) = "number"
       /\ it.operator \notin {PyStr(s_isEmpty), PyStr(s_isNotEmpty), PyStr(s_is), PyStr(s_not)}
       /\ ~IsNumber(it.value)

\* a filter model without its untranslatable criteria
Translatable(fm) ==
    [fm EXCEPT !.items = SelectSeq(FilterItems(fm), LAMBDA it : ~Untranslatable(it))]

----------------------------------------------------------------------------
(* C26 - untranslatable criteria are dropped (SpecQuery).                   *)

\* C26: apply_filter_model does not raise, and returns the frame it returns
\* for the same filter model without its untranslatable criteria; when
\* every criterion is untranslatable that is the frame unchanged.
C26_UntranslatableCriteriaDropped ==
    FilterCallReturned =>
        /\ ~query_call.result.raised
        /\ QueryFrame = apply_filter_model(ScanRows(LF3), Translatable(query_call.filter_model),
                                           collect_schema(LF3))
        /\ FilterItems(Translatable(query_call.filter_model)) = << >>
              => QueryFrame = ScanRows(LF3)

\* a call with an untranslatable criterion and a translatable one returned
\* the rows the translatable one selects
C26_Witness ==
    /\ FilterCallReturned
    /\ Len(FilterItems(query_call.filter_model)) = 2
    /\ Untranslatable(FilterItems(query_call.filter_model)[1])
    /\ FilterItems(query_call.filter_model)[2] = it_age_gt_30
    /\ Len(QueryFrame) = 3

----------------------------------------------------------------------------
(* C27 - fields are resolved without regard to letter case (SpecQuery).     *)

\* a filter model with each field that resolves replaced by the column it
\* resolves to
WithResolvedFields(fm) ==
    [fm EXCEPT !.items =
        [i \in 1..Len(FilterItems(fm)) |->
            IF _resolve_field_name(FilterItems(fm)[i].field, collect_schema(LF3)) = PyNone
            THEN FilterItems(fm)[i]
            ELSE [FilterItems(fm)[i] EXCEPT
                    !.field = _resolve_field_name(FilterItems(fm)[i].field, collect_schema(LF3))]]]

\* C27: apply_filter_model resolves each criterion's field to a column by an
\* exact match, else by a match that ignores letter case, so that a model
\* naming DEPT filters as the same model naming dept does.
C27_FieldResolvedIgnoringCase ==
    FilterCallReturned =>
        /\ ~query_call.result.raised
        /\ QueryFrame = apply_filter_model(ScanRows(LF3), WithResolvedFields(query_call.filter_model),
                                           collect_schema(LF3))

----------------------------------------------------------------------------
(* C28 - sort entries that name no column are skipped (SpecQuery).          *)

\* the entries of a sort model whose field names a column
ResolvableEntries(sort_model) ==
    SelectSeq(sort_model, LAMBDA entry : "field" \in entry.keys /\ ColumnsNamed(entry.field) # {})

\* C28: apply_sort_model skips every entry whose field names no column and
\* sorts by the remaining keys, in the input order and with their
\* directions; when no entry is left the frame comes back unchanged, and
\* collecting the result never raises.
C28_UnresolvedSortEntriesSkipped ==
    SortCallReturned =>
        /\ ~query_call.result.raised
        /\ query_call.result.frames =
                apply_sort_model(ScanRows(LF3), ResolvableEntries(query_call.sort_model),
                                 collect_schema(LF3))
        /\ ResolvableEntries(query_call.sort_model) = << >>
              => query_call.result.frames = { ScanRows(LF3) }

----------------------------------------------------------------------------
(* C29 - criteria are combined by union or intersection (SpecQuery).        *)

\* the criteria of a filter model that translate to an expression
Translated(fm) ==
    SelectSeq(FilterItems(fm), LAMBDA it : _build_filter_expr(it, collect_schema(LF3)) # NoExpr)

\* the rows one criterion selects when it is the only one
SelectedAlone(it) ==
    LET frame == apply_filter_model(ScanRows(LF3), UIFilter(<< it >>), collect_schema(LF3))
    IN  { frame[i] : i \in 1..Len(frame) }

\* the rows the criteria select together: those some criterion selects under
\* OR, those every criterion selects otherwise
SelectedTogether(items, is_or) ==
    { row \in { ScanRows(LF3)[i] : i \in 1..Len(ScanRows(LF3)) } :
        IF is_or THEN \E i \in 1..Len(items) : row \in SelectedAlone(items[i])
                 ELSE \A i \in 1..Len(items) : row \in SelectedAlone(items[i]) }

\* C29: apply_filter_model returns, in the frame's order, the union of the
\* rows each translated criterion selects alone when the combinator is 'or'
\* in any letter case, their intersection otherwise; when no criterion
\* translates it returns the frame unchanged.
C29_CombinatorIsUnionOrIntersection ==
    FilterCallReturned =>
        /\ ~query_call.result.raised
        /\ QueryFrame =
              IF Translated(query_call.filter_model) = << >> THEN ScanRows(LF3)
              ELSE SelectSeq(ScanRows(LF3),
                             LAMBDA row : row \in SelectedTogether(
                                                     Translated(query_call.filter_model),
                                                     Lower(FilterLogic(query_call.filter_model).s) = s_or))

\* a call with the combinator OR and two criteria returned more rows than
\* either criterion selects
C29_Witness ==
    /\ FilterCallReturned
    /\ FilterLogic(query_call.filter_model).s # s_or
    /\ Lower(FilterLogic(query_call.filter_model).s) = s_or
    /\ FilterItems(query_call.filter_model) = << it_dept_is_eng, it_age_gt_30 >>
    /\ Len(QueryFrame) > Cardinality(SelectedAlone(it_dept_is_eng))
    /\ Len(QueryFrame) > Cardinality(SelectedAlone(it_age_gt_30))
    /\ Len(QueryFrame) < Len(ScanRows(LF3))

----------------------------------------------------------------------------
(* C30 - 'is' and 'not' on a Boolean column (SpecQuery).                    *)

\* the values that read as a boolean: a native boolean, or the text true or
\* false in any letter case
ReadsAsBoolean(v) ==
    \/ v.k = "bool"
    \/ v.k = "str" /\ Lower(v.s) \in { << "t", "r", "u", "e" >>, << "f", "a", "l", "s", "e" >> }

BooleanRead(v) == IF v.k = "bool" THEN v.n = 1 ELSE Lower(v.s) = << "t", "r", "u", "e" >>

\* the rows whose active cell holds a boolean that equals b (differs from b
\* when negated); a null cell holds none
RowsWithActive(b, negated) ==
    SelectSeq(ScanRows(LF3),
              LAMBDA row :
                  LET cell == row[SchemaIndex(collect_schema(LF3), c_active)]
                  IN  cell.k = "bool" /\ (((cell.n = 1) = b) # negated))

\* C30: a single 'is' ('not') criterion on the Boolean column active whose
\* value reads as a boolean selects exactly the rows whose active equals
\* (differs from) that boolean; one whose value does not is dropped, so the
\* frame comes back unchanged.
C30_BooleanIsAcceptsBooleanValues ==
    ( /\ FilterCallReturned
      /\ Len(FilterItems(query_call.filter_model)) = 1
      /\ FilterItems(query_call.filter_model)[1].field = PyStr(c_active)
      /\ FilterItems(query_call.filter_model)[1].operator \in { PyStr(s_is), PyStr(s_not) } )
    => /\ ~query_call.result.raised
       /\ QueryFrame =
             IF ReadsAsBoolean(FilterItems(query_call.filter_model)[1].value)
             THEN RowsWithActive(BooleanRead(FilterItems(query_call.filter_model)[1].value),
                                 FilterItems(query_call.filter_model)[1].operator = PyStr(s_not))
             ELSE ScanRows(LF3)

----------------------------------------------------------------------------
(* C35 - what a scroll load changes (Spec).                                 *)

\* the step resumes a scroll handler that was suspended at its yield
ScrollLoads == Len(inflight') < Len(inflight) /\ inflight[1].h = "scroll"

\* the chunks that can follow offset in the filtered and sorted result
ChunksAt(offset, page_size) ==
    { _dataframe_to_dicts(Slice(sorted, offset, page_size), offset) :
        sorted \in apply_sort_model(Matching(_lf_grid_filter), _lf_grid_sort,
                                    collect_schema(LF1)) }

----------------------------------------------------------------------------
(* C38 - filter state and sort state are independent (Spec).                *)

\* the buffer holds rows that satisfy the accumulated filter, in the order of
\* the accumulated sort
BufferFilteredAndSorted ==
    \A i \in 1..Len(lf_grid_rows) :
        /\ lf_grid_rows[i].cells \in MatchingSet
        /\ \A j \in 1..Len(lf_grid_rows) :
              i < j => ~SortsBefore(lf_grid_rows[j].cells, lf_grid_rows[i].cells)

\* C38: no step of a sort-change handler changes the accumulated filter, the
\* UI filter model or the active filter fields, and no step of a
\* filter-change or clear-filters handler changes the accumulated sort
\* model; the page each of them leaves holds rows that satisfy the current
\* filter, in the order of the current sort.
C38_FilterAndSortIndependent ==
    [][ /\ last_step'.h = "sort" =>
              /\ _lf_grid_filter' = _lf_grid_filter
              /\ lf_grid_filter_model' = lf_grid_filter_model
              /\ lf_grid_active_filter_fields' = lf_grid_active_filter_fields
        /\ last_step'.h \in {"filter", "clear"} => _lf_grid_sort' = _lf_grid_sort
        /\ ( /\ last_step'.h \in {"sort", "filter", "clear"}
             /\ last_step'.at = "done"
             /\ _lf_grid_cache_id' # "" ) => BufferFilteredAndSorted' ]_vars

\* a filter-change handler completed on a sorted session and left a filtered
\* page in the order of the sort
C38_Witness ==
    /\ last_step = Step("filter", "done")
    /\ _lf_grid_sort = << MkSortEntry(PyStr(c_age), PyStr(s_desc)) >>
    /\ FilterItems(_lf_grid_filter) # << >>
    /\ Len(lf_grid_rows) = lf_grid_pagination_model.pageSize
    /\ BufferFilteredAndSorted

----------------------------------------------------------------------------
(* C39 - a filter change with no items is a clear (Spec).                   *)

\* the step completes a filter-change handler whose model has no items
EmptyFilterChangeCompletes ==
    /\ Len(inflight') < Len(inflight)
    /\ inflight[1].h = "filter"
    /\ FilterItems(inflight[1].fm) = << >>

\* C39: the step that completes a filter-change handler whose model has an
\* empty items list leaves the accumulated filter empty, no active filter
\* field, the page at 0, the sort model as it was and a UI filter model
\* without items, and leaves the rows, row_count, the columns, the flags and
\* the derived texts as clear_lf_grid_filters would have left them from the
\* same state.
C39_EmptyFilterChangeIsClear ==
    [][ EmptyFilterChangeCompletes =>
          /\ _lf_grid_filter' = EmptyDict
          /\ lf_grid_active_filter_fields' = << >>
          /\ lf_grid_pagination_model'.page = 0
          /\ _lf_grid_sort' = _lf_grid_sort
          /\ FilterItems(lf_grid_filter_model') = << >>
          /\ \E cleared \in clear_lf_grid_filters_body(Self) :
                /\ lf_grid_rows' = cleared.rows
                /\ lf_grid_row_count' = cleared.row_count
                /\ _lf_grid_filter' = cleared.filter
                /\ _lf_grid_sort' = cleared.sort
                /\ lf_grid_active_filter_fields' = cleared.active_filter_fields
                /\ lf_grid_pagination_model' = cleared.pagination_model
                /\ lf_grid_columns' = cleared.columns
                /\ lf_grid_loading' = cleared.loading
                /\ lf_grid_loaded' = cleared.loaded
                /\ lf_grid_filter_debug' = cleared.filter_debug
                /\ lf_grid_filter_preset_json' = cleared.preset_json
                /\ _cache_registry' = cleared.registry
                /\ FilterItems(lf_grid_filter_model') = FilterItems(cleared.filter_model) ]_vars

\* a filter change with no items completed on a sorted session where a
\* filter on dept had been applied: every row of the table counts again
C39_Witness ==
    /\ last_step = Step("filter", "done")
    /\ lf_grid_filter_model = UIFilter(<< >>)
    /\ _lf_grid_filter = EmptyDict
    /\ lf_grid_loaded
    /\ lf_grid_columns[1].valueOptions.has
    /\ _lf_grid_sort # << >>
    /\ lf_grid_row_count = Len(ScanRows(LF1))

----------------------------------------------------------------------------
(* C40 - the uninitialized session (Spec).                                  *)

\* no set_lazyframe has run in the session, and the step is not one of it
StepWhileUninitialized == _lf_grid_cache_id = "" /\ last_step'.h # "set_lazyframe"

\* C40: while no set_lazyframe has run, no handler step executes a query or
\* changes the rows, row_count or the loaded flag; a scroll event changes
\* nothing at all; filter-change, sort-change and clear-filters handlers end
\* with loading false and an empty buffer; and the loaded flag becomes true
\* only in the step that completes set_lazyframe and is never false again.
C40_UninitializedSessionRunsNoQuery ==
    [][ /\ StepWhileUninitialized =>
              /\ last_queries' = {}
              /\ lf_grid_rows' = lf_grid_rows
              /\ lf_grid_row_count' = lf_grid_row_count
              /\ lf_grid_loaded' = lf_grid_loaded
              /\ ~lf_grid_loaded'
              /\ _lf_grid_cache_id' = ""
        /\ (StepWhileUninitialized /\ last_step'.h = "scroll") =>
              /\ last_step'.at = "return"
              /\ UNCHANGED << lf_grid_rows, lf_grid_columns, lf_grid_row_count,
                              lf_grid_loading, lf_grid_loaded, lf_grid_stats,
                              lf_grid_selected_info, lf_grid_filter_debug,
                              lf_grid_filter_preset_json, lf_grid_filter_model,
                              lf_grid_active_filter_fields, lf_grid_pagination_model,
                              _lf_grid_filter, _lf_grid_sort, _lf_grid_cache_id,
                              _cache_registry, inflight >>
        /\ ( /\ StepWhileUninitialized
             /\ last_step'.h \in {"filter", "sort", "clear"}
             /\ last_step'.at = "done" ) =>
              /\ ~lf_grid_loading'
              /\ lf_grid_rows' = << >>
        /\ lf_grid_loaded => lf_grid_loaded'
        /\ (~lf_grid_loaded /\ lf_grid_loaded') => last_step' = Step("set_lazyframe", "done") ]_vars

\* filter-change and sort-change handlers completed on a session that was
\* never initialized: a filter and a sort are accumulated, no row is loaded
C40_Witness ==
    /\ _lf_grid_cache_id = ""
    /\ last_step.at = "done"
    /\ last_step.h \in {"filter", "sort"}
    /\ FilterItems(_lf_grid_filter) # << >>
    /\ _lf_grid_sort # << >>
    /\ ~lf_grid_loaded
    /\ ~lf_grid_loading
    /\ lf_grid_rows = << >>
    /\ lf_grid_row_count = 0

----------------------------------------------------------------------------
(* The downloaded preset.                                                   *)

PresetItemKeys == {"field", "operator", "value"}

\* the criteria written in the downloaded file
DownloadedItems ==
    IF "items" \in preset_file.data.filter_model.keys
    THEN preset_file.data.filter_model.items ELSE << >>

\* C33: every filter item of a downloaded preset carries only the keys field,
\* operator and value: the keys the UI attached to a criterion, like its id,
\* are not in the file.
C33_DownloadedItemsCarryOnlyCriterionKeys ==
    preset_file.saved =>
        \A i \in 1..Len(DownloadedItems) : DownloadedItems[i].keys \subseteq PresetItemKeys

\* the step completes the upload of the file that was downloaded from this
\* session, initialized then and now
DownloadedPresetUploadCompletes ==
    /\ Len(inflight') < Len(inflight)
    /\ inflight[1].h = "preset"
    /\ preset_file.saved
    /\ inflight[1].payload = json_loads(preset_file.data)
    /\ preset_file.at.cache_id # ""
    /\ _lf_grid_cache_id # ""

FirstPage(rows, pagination_model) == Slice(rows, 0, pagination_model.pageSize)

\* C34: the step that completes the upload of the downloaded preset leaves
\* the accumulated filter and the sort model equal to those at download time,
\* and row_count and the first page as they were at download time.
C34_UploadRestoresDownloadedSession ==
    [][ DownloadedPresetUploadCompletes =>
          /\ _lf_grid_filter' = preset_file.at.filter
          /\ _lf_grid_sort' = preset_file.at.sort
          /\ lf_grid_row_count' = preset_file.at.row_count
          /\ FirstPage(lf_grid_rows', lf_grid_pagination_model') = preset_file.at.page ]_vars

----------------------------------------------------------------------------
(* The active filter fields and the accumulated filter.                     *)

\* the criterion names a field
NamesField(item) ==
    "field" \in item.keys /\ item.field.k = "str" /\ item.field.s # << >>

\* the fields of the criteria of the accumulated filter, in its order
AccumulatedFields ==
    LET named == SelectSeq(FilterItems(_lf_grid_filter), NamesField)
    IN  [i \in 1..Len(named) |-> named[i].field]

\* C36: whenever no handler is in progress, the active filter fields are the
\* fields of the criteria of the accumulated filter, in the same order (a
\* criterion that names no field has none).
C36_ActiveFieldsAreAccumulatedFields ==
    inflight = << >> => lf_grid_active_filter_fields = AccumulatedFields

----------------------------------------------------------------------------
(* One criterion per field after a filter change.                           *)

\* the step completes a filter-change handler
FilterChangeCompletes ==
    /\ Len(inflight') < Len(inflight)
    /\ inflight[1].h = "filter"
    /\ last_step' = Step("filter", "done")

\* the criterion carries a value, or its operator needs none
CarriesValue(item) ==
    \/ ("value" \in item.keys /\ item.value # PyNone)
    \/ ("operator" \in item.keys /\ item.operator \in {PyStr(s_isEmpty), PyStr(s_isNotEmpty)})

\* incoming[k] is the last criterion with a value that the model carries for its field
LastForItsField(incoming, k) ==
    /\ NamesField(incoming[k])
    /\ CarriesValue(incoming[k])
    /\ \A l \in (k + 1)..Len(incoming) :
          ~(NamesField(incoming[l]) /\ CarriesValue(incoming[l])
            /\ incoming[l].field = incoming[k].field)

\* C37: after the step that completes a filter-change handler no two criteria
\* of the accumulated filter name the same field, and of the criteria the
\* incoming model carried for one field the last one with a value is the one
\* the accumulated filter holds.
C37_OneCriterionPerField ==
    [][ FilterChangeCompletes =>
          LET acc == FilterItems(_lf_grid_filter')
              incoming == FilterItems(inflight[1].fm)
          IN  /\ \A i, j \in 1..Len(acc) :
                    i # j => (NamesField(acc[i]) /\ acc[i].field # acc[j].field)
              /\ \A k \in 1..Len(incoming) :
                    LastForItsField(incoming, k) => \E i \in 1..Len(acc) : acc[i] = incoming[k]
      ]_vars

\* a filter change with two criteria on dept completed in a session where a
\* preset with two criteria on dept had been applied
C37_Witness ==
    /\ last_step = Step("filter", "done")
    /\ lf_grid_selected_info.text = "Preset applied"
    /\ lf_grid_selected_info.a = 2
    /\ lf_grid_selected_info.b = 0
    /\ Len(FilterItems(lf_grid_filter_model)) = 2
    /\ FilterItems(_lf_grid_filter) = << it_dept_is_eng >>

----------------------------------------------------------------------------
(* The generated script and statement.                                      *)

CodeCallReturned ==
    /\ query_call.pc = "returned"
    /\ query_call.fn \in {"generate_polars_code", "generate_sql_where"}

NoCriterionTranslates(fm) ==
    \A i \in 1..Len(FilterItems(fm)) : Untranslatable(FilterItems(fm)[i])

NoSortEntryNamesField(sort_model) ==
    \A i \in 1..Len(sort_model) :
        ~("field" \in sort_model[i].keys /\ sort_model[i].field # PyNone)

\* C31: generate_polars_code and generate_sql_where return the empty string
\* exactly when no criterion of the filter model translates and no entry of
\* the sort model names a field, and a text with lines otherwise.
C31_EmptyExactlyWhenNothingActive ==
    CodeCallReturned =>
        ((query_call.result.text = << >>)
            <=> (/\ NoCriterionTranslates(query_call.filter_model)
                 /\ NoSortEntryNamesField(query_call.sort_model)))

\* the script generated for a filter model whose only criterion lacks its
\* value and a sort model whose only entry has no field is the empty string
C31_Witness ==
    /\ query_call.pc = "returned"
    /\ query_call.fn = "generate_polars_code"
    /\ FilterItems(query_call.filter_model) = << it_age_ge_novalue >>
    /\ Len(query_call.sort_model) = 1
    /\ query_call.result.text = << >>

\* the string a Python literal "..." with these characters between its quotes
\* denotes; not ok when a quote inside ends the literal early
RECURSIVE PyLiteral(_)
PyLiteral(lit) ==
    IF lit = << >> THEN [ok |-> TRUE, s |-> << >>]
    ELSE IF Head(lit) = dq THEN [ok |-> FALSE, s |-> << >>]
    ELSE IF Head(lit) = bs
    THEN IF Len(lit) = 1 THEN [ok |-> FALSE, s |-> << >>]
         ELSE LET rest == PyLiteral(SubSeq(lit, 3, Len(lit)))
              IN  [ok |-> rest.ok,
                   s |-> (IF lit[2] \in {dq, bs} THEN << lit[2] >> ELSE << bs, lit[2] >>)
                         \o rest.s]
    ELSE LET rest == PyLiteral(Tail(lit))
         IN  [ok |-> rest.ok, s |-> << Head(lit) >> \o rest.s]

\* the string an SQL literal '...' denotes: a doubled quote is one quote
RECURSIVE SqlLiteral(_)
SqlLiteral(lit) ==
    IF lit = << >> THEN [ok |-> TRUE, s |-> << >>]
    ELSE IF Head(lit) = sq
    THEN IF Len(lit) >= 2 /\ lit[2] = sq
         THEN LET rest == SqlLiteral(SubSeq(lit, 3, Len(lit)))
              IN  [ok |-> rest.ok, s |-> << sq >> \o rest.s]
         ELSE [ok |-> FALSE, s |-> << >>]
    ELSE LET rest == SqlLiteral(Tail(lit))
         IN  [ok |-> rest.ok, s |-> << Head(lit) >> \o rest.s]

\* s LIKE pattern: % stands for any characters, _ for any one character
RECURSIVE Like(_, _)
Like(s, pattern) ==
    IF pattern = << >> THEN s = << >>
    ELSE IF Head(pattern) = "%"
    THEN \E k \in 0..Len(s) : Like(SubSeq(s, k + 1, Len(s)), Tail(pattern))
    ELSE IF s = << >> THEN FALSE
    ELSE (Head(pattern) = "_" \/ Head(pattern) = Head(s)) /\ Like(Tail(s), Tail(pattern))

IsSqlOp(op) == op \in {"IS NULL OR CAST =", "IS NOT NULL AND CAST !=", "CAST =", "CAST !=",
                       "CAST LIKE", "="}

\* the literal of the condition reads as a string
Reads(code) ==
    IF code.op \in {"CAST =", "CAST !=", "CAST LIKE"} THEN SqlLiteral(code.lit).ok
    ELSE IF code.op \in {"str_col ==", "str_col !=", "str_col.str.contains",
                         "str_col.str.starts_with", "str_col.str.ends_with"}
    THEN PyLiteral(code.lit).ok
    ELSE TRUE

\* what a written condition evaluates to on a row: "T", "F" or "N"
EvalCode(code, row, schema) ==
    LET col == SchemaIndex(schema, code.field)
        dtype == schema[col].dtype
        cell == row[col]
        as(op, sval, nval) == EvalExpr(Expr(op, col, dtype, sval, nval), row)
    IN  CASE code.op \in {"is_null | str_col ==", "IS NULL OR CAST ="} -> as("isEmpty", << >>, 0)
          [] code.op \in {"is_not_null & str_col !=", "IS NOT NULL AND CAST !="} ->
                as("isNotEmpty", << >>, 0)
          [] code.op = "str_col ==" -> as("str_eq", PyLiteral(code.lit).s, 0)
          [] code.op = "str_col !=" -> as("str_ne", PyLiteral(code.lit).s, 0)
          [] code.op = "str_col.str.contains" -> as("contains", PyLiteral(code.lit).s, 0)
          [] code.op = "str_col.str.starts_with" -> as("starts_with", PyLiteral(code.lit).s, 0)
          [] code.op = "str_col.str.ends_with" -> as("ends_with", PyLiteral(code.lit).s, 0)
          [] code.op = "CAST =" -> as("str_eq", SqlLiteral(code.lit).s, 0)
          [] code.op = "CAST !=" -> as("str_ne", SqlLiteral(code.lit).s, 0)
          [] code.op = "CAST LIKE" ->
                IF cell.k = "None" THEN "N"
                ELSE Bool3(Like(_col_to_str_expr(cell, dtype).s, SqlLiteral(code.lit).s))
          [] code.op \in {"==", "="} -> as("num_eq", << >>, code.num)
          [] code.op = "!=" -> as("num_ne", << >>, code.num)
          [] code.op = ">" -> as("num_gt", << >>, code.num)
          [] code.op = ">=" -> as("num_ge", << >>, code.num)
          [] code.op = "<" -> as("num_lt", << >>, code.num)
          [] code.op = "<=" -> as("num_le", << >>, code.num)

RECURSIVE EvalJoined(_, _, _, _)
EvalJoined(parts, is_or, row, schema) ==
    IF Len(parts) = 1 THEN EvalCode(parts[1], row, schema)
    ELSE LET left == EvalJoined(SubSeq(parts, 1, Len(parts) - 1), is_or, row, schema)
             right == EvalCode(parts[Len(parts)], row, schema)
         IN  IF is_or THEN Or3(left, right) ELSE And3(left, right)

LinesOf(text, kind) == SelectSeq(text, LAMBDA line : line.kind = kind)

\* the frames that running a generated text on the rows can give: the rows
\* its condition holds for, in an order its sort keys allow; raised when the
\* text does not parse or names a column the frame does not have
Evaluated(text, rows, schema) ==
    LET filters == LinesOf(text, "filter")
        sorts == LinesOf(text, "sort")
        parts == IF filters = << >> THEN << >> ELSE filters[1].parts
        joiner == IF filters = << >> THEN << >> ELSE filters[1].joiner
        keys == IF sorts = << >> THEN << >>
                ELSE [i \in 1..Len(sorts[1].keys) |->
                        [by |-> PyStr(sorts[1].keys[i].by),
                         descending |-> sorts[1].keys[i].direction
                                            \in {<< "T", "r", "u", "e" >>, << "D", "E", "S", "C" >>}]]
        parses == /\ \A i \in 1..Len(parts) : Reads(parts[i])
                  /\ Len(parts) > 1 => joiner \in {<< "|" >>, << "&" >>, << "O", "R" >>,
                                                    << "A", "N", "D" >>}
                  /\ \A i \in 1..Len(keys) :
                        sorts[1].keys[i].direction
                            \in {<< "T", "r", "u", "e" >>, << "F", "a", "l", "s", "e" >>,
                                 << "D", "E", "S", "C" >>, << "A", "S", "C" >>}
        found == \A i \in 1..Len(keys) : field_in_schema(keys[i].by, schema)
        kept == IF parts = << >> THEN rows
                ELSE SelectSeq(rows, LAMBDA row :
                        EvalJoined(parts, joiner \in {<< "|" >>, << "O", "R" >>}, row, schema) = "T")
    IN  IF ~parses \/ ~found THEN [raised |-> TRUE, frames |-> {}]
        ELSE [raised |-> FALSE,
              frames |-> IF keys = << >> THEN { kept }
                         ELSE Orderings(kept, 1..Len(kept), keys, schema)]

\* the frames of the filter and the sort applied directly
AppliedDirectly(filter_model, sort_model, rows, schema) ==
    IF sort_column_not_found(sort_model, schema) THEN [raised |-> TRUE, frames |-> {}]
    ELSE [raised |-> FALSE,
          frames |-> apply_sort_model(apply_filter_model(rows, filter_model, schema),
                                      sort_model, schema)]

\* C32: running the text that generate_polars_code or generate_sql_where
\* returned selects the rows, in the order, that apply_filter_model followed
\* by apply_sort_model selects for the same filter model and sort model.
C32_GeneratedTextSelectsSameRows ==
    CodeCallReturned =>
        Evaluated(query_call.result.text, ScanRows(LF3), collect_schema(LF3))
            = AppliedDirectly(query_call.filter_model, query_call.sort_model,
                              ScanRows(LF3), collect_schema(LF3))

============================================================================
